---- MODULE Spec2Model ----
(***************************************************************************)
(* Model of the symbol-file parser of DB (src/src/regex.c).                *)
(*                                                                         *)
(* The parser state (struct regex_parser), the symbol table (struct        *)
(* regex_symbols) and the heap of expression nodes (struct regex_node) are *)
(* the state.  Every function of the recursive-descent parser is an        *)
(* operator over a parser record p, translated statement by statement.     *)
(* One iteration of the top-level loop of parse_regex_symbols is one       *)
(* action (ParseStep), the code after the loop is the other (ParseFinish). *)
(*                                                                         *)
(* Bytes are integers, the buffer is a sequence of bytes, positions are    *)
(* 0-based as in the C code (the byte at position pos is buf[pos + 1]).    *)
(* Pointers are indices: a node pointer indexes the heap, a symbol pointer *)
(* indexes the symbol table, NULL is 0.  Allocations of the parser are     *)
(* taken to succeed; those of the automaton builder may fail.              *)
(***************************************************************************)
EXTENDS Integers, Sequences, FiniteSets, TLC

VARIABLES buf, pos, line, col, error, symbols, heap, pc, result, insym, logged, hist,
          nfa, matcher, nm, conc, lg, coll

vars == <<buf, pos, line, col, error, symbols, heap, pc, result, insym, logged, hist,
          nfa, matcher, nm, conc, lg, coll>>

-----------------------------------------------------------------------------
(* Syntax characters, regex.c:23-35 *)
REGEX_PARSER_COMMENT == 35
REGEX_PARSER_LEXEME == 64
REGEX_PARSER_BRANCH_SEPARATOR == 124
REGEX_PARSER_GROUP_START == 40
REGEX_PARSER_GROUP_END == 41
REGEX_PARSER_STATEMENT_END == 59
REGEX_PARSER_LITERAL == 34
REGEX_PARSER_ESCAPE == 92
REGEX_PARSER_LOOP == 42
REGEX_PARSER_REFERENCE_PREFIX == 36
REGEX_PARSER_RANGE_START == 91
REGEX_PARSER_RANGE_SEPARATOR == 45
REGEX_PARSER_RANGE_END == 93

(* regex.h:19 *)
MAX_REGEX_SYMBOL_NAME_LENGTH == 128

NULL == 0

(* parser->error == NULL *)
NoError == "NULL"

(* The string terminator written by parser_copy_string *)
NUL == 0

-----------------------------------------------------------------------------
(* Source text of the inputs: the byte of each character used in them *)
Ch ==
  [c \in {"a", "b", "x", "y", "A", "_", "0", " ", "\n", "#", "@", "|", "(", ")",
          ";", "\"", "\\", "*", "$", "[", "-", "]", "n", "u", "m", "w", "s", "1",
          "2", "3", "9", "DEL"} |->
     CASE c = "a" -> 97 [] c = "b" -> 98 [] c = "x" -> 120 [] c = "y" -> 121
       [] c = "A" -> 65 [] c = "_" -> 95 [] c = "0" -> 48
       [] c = "n" -> 110 [] c = "u" -> 117 [] c = "m" -> 109 [] c = "w" -> 119
       [] c = "s" -> 115 [] c = "1" -> 49 [] c = "2" -> 50 [] c = "3" -> 51
       [] c = "9" -> 57 [] c = "DEL" -> 127
       [] c = " " -> 32 [] c = "\n" -> 10
       [] c = "#" -> REGEX_PARSER_COMMENT
       [] c = "@" -> REGEX_PARSER_LEXEME
       [] c = "|" -> REGEX_PARSER_BRANCH_SEPARATOR
       [] c = "(" -> REGEX_PARSER_GROUP_START
       [] c = ")" -> REGEX_PARSER_GROUP_END
       [] c = ";" -> REGEX_PARSER_STATEMENT_END
       [] c = "\"" -> REGEX_PARSER_LITERAL
       [] c = "\\" -> REGEX_PARSER_ESCAPE
       [] c = "*" -> REGEX_PARSER_LOOP
       [] c = "$" -> REGEX_PARSER_REFERENCE_PREFIX
       [] c = "[" -> REGEX_PARSER_RANGE_START
       [] c = "-" -> REGEX_PARSER_RANGE_SEPARATOR
       [] c = "]" -> REGEX_PARSER_RANGE_END]

(* The bytes of a text given as a tuple of one-character strings *)
Str(s) == [i \in 1..Len(s) |-> Ch[s[i]]]

RECURSIVE Concat(_)
Concat(ss) == IF ss = <<>> THEN <<>> ELSE Head(ss) \o Concat(Tail(ss))

(* All sequences of at most n elements of S *)
SeqUpTo(S, n) == UNION {[1..k -> S] : k \in 0..n}

-----------------------------------------------------------------------------
(* Character classes, regex.c:210-230 *)
is_whitespace == {32, 9, 10}

is_newline == {10}

is_identifier == (48..57) \cup (65..90) \cup (97..122) \cup {95}

-----------------------------------------------------------------------------
(* Parser primitives, regex.c:177-415 *)

parser_ok(p) == p.error = NoError

(* parser_error sets the message; hist.err keeps what the parser had       *)
(* consumed and registered when the first message was set.                 *)
parser_error(p, msg) ==
  [p EXCEPT !.error = msg,
            !.hist.err = IF p.error = NoError
                         THEN <<[pos |-> p.pos, nsyms |-> Len(p.symbols),
                                 ndef |-> Cardinality({i \in DOMAIN p.symbols :
                                                         p.symbols[i].expression # NULL})]>>
                         ELSE @]

parser_has_more(p) == p.pos # Len(p.buf)

parser_peek(p) == p.buf[p.pos + 1]

parser_skip(p) ==
  IF parser_peek(p) \in is_newline
  THEN [p EXCEPT !.line = @ + 1, !.col = 1, !.pos = @ + 1]
  ELSE [p EXCEPT !.col = @ + 1, !.pos = @ + 1]

(* assert(parser->pos != parser->len) of parser_peek fails: the process aborts *)
parser_assert_fail(p) == [p EXCEPT !.halt = "abort"]

(* The process no longer runs the parser (abort) or never leaves a loop (hang) *)
Stopped(p) == p.halt # "run"

(* parser_skip counting every character as one more column *)
parser_skip_to_same_line(p, stop) ==
  [p EXCEPT !.line = @ + Cardinality({i \in (p.pos + 1)..stop : p.buf[i] \in is_newline}),
            !.col = @ + (stop - p.pos), !.pos = stop]

(* parser_skip applied to every character from the position up to stop *)
parser_skip_to(p, stop) ==
  LET newlines == {i \in (p.pos + 1)..stop : p.buf[i] \in is_newline}
      last == CHOOSE i \in newlines : \A j \in newlines : j <= i
  IN IF newlines = {}
     THEN [p EXCEPT !.col = @ + (stop - p.pos), !.pos = stop]
     ELSE [p EXCEPT !.line = @ + Cardinality(newlines), !.col = 1 + (stop - last),
                    !.pos = stop]

(* The loops of parser_skip_while and parser_skip_until run to their end:  *)
(* they stop at the first character that fails (meets) the predicate, or   *)
(* at the end of the buffer.                                               *)
parser_skip_while(p, pred) ==
  parser_skip_to(p, CHOOSE stop \in p.pos..Len(p.buf) :
                      /\ \A i \in (p.pos + 1)..stop : p.buf[i] \in pred
                      /\ stop = Len(p.buf) \/ p.buf[stop + 1] \notin pred)

parser_skip_until(p, pred) ==
  parser_skip_to(p, CHOOSE stop \in p.pos..Len(p.buf) :
                      /\ \A i \in (p.pos + 1)..stop : p.buf[i] \notin pred
                      /\ stop = Len(p.buf) \/ p.buf[stop + 1] \in pred)

parser_skip_whitespace(p) == parser_skip_while(p, is_whitespace)

parser_skip_comment(p) ==
  LET line_end(p1) == IF parser_has_more(p1) THEN parser_skip(p1) ELSE p1
  IN line_end(parser_skip_until(parser_skip(p), is_newline))

parser_pos(p) == p.pos

-----------------------------------------------------------------------------
(* Expression nodes, regex.c:441-563.  In the operators below a local      *)
(* operator stands for the statements that follow a call: its parameter is *)
(* what the call returned.                                                 *)

(* A result of a parse function: the parser afterwards and the node returned *)
R(p, node) == [p |-> p, node |-> node]

create_regex_node(p, type) ==
  R([p EXCEPT !.heap = Append(@, [type |-> type, parent |-> NULL, left |-> NULL,
                                  right |-> NULL, body |-> NULL, start |-> 0,
                                  end |-> 0, symbol |-> NULL, freed |-> 0])],
    Len(p.heap) + 1)

RECURSIVE destroy_regex_node(_, _)
destroy_regex_node(p, node) ==
  LET n == p.heap[node]
      p1 == IF n.type \in {"sequence", "branch"}
            THEN destroy_regex_node(destroy_regex_node(p, n.left), n.right)
            ELSE IF n.type = "loop"
                 THEN destroy_regex_node(p, n.body)
                 ELSE p
  IN [p1 EXCEPT !.heap[node].freed = @ + 1]

(* add_to_regex_tree without the store into the right child of the parent *)
(* of the leaf: the leaf stays a child of that parent                      *)
add_to_regex_tree_shared(p, tree, type, node) ==
  IF tree.leaf = NULL
  THEN [p |-> p, tree |-> [root |-> node, leaf |-> node], rc |-> 0]
  ELSE LET link(c) ==
             LET seq == c.node
                 h1 == IF tree.leaf = tree.root
                       THEN c.p.heap
                       ELSE [c.p.heap EXCEPT ![seq].parent = c.p.heap[tree.leaf].parent]
             IN [p |-> [c.p EXCEPT !.heap = [h1 EXCEPT ![seq].left = tree.leaf,
                                                       ![tree.leaf].parent = seq,
                                                       ![seq].right = node,
                                                       ![node].parent = seq]],
                 tree |-> [root |-> IF tree.leaf = tree.root THEN seq ELSE tree.root,
                           leaf |-> node],
                 rc |-> 0]
       IN link(create_regex_node(p, type))

add_to_regex_tree(p, tree, type, node) ==
  IF tree.leaf = NULL
  THEN [p |-> p, tree |-> [root |-> node, leaf |-> node], rc |-> 0]
  ELSE LET link(c) ==
             LET seq == c.node
                 h1 == IF tree.leaf = tree.root
                       THEN c.p.heap
                       ELSE [c.p.heap EXCEPT ![seq].parent = c.p.heap[tree.leaf].parent,
                                             ![c.p.heap[tree.leaf].parent].right = seq]
             IN [p |-> [c.p EXCEPT !.heap = [h1 EXCEPT ![seq].left = tree.leaf,
                                                       ![tree.leaf].parent = seq,
                                                       ![seq].right = node,
                                                       ![node].parent = seq]],
                 tree |-> [root |-> IF tree.leaf = tree.root THEN seq ELSE tree.root,
                           leaf |-> node],
                 rc |-> 0]
       IN link(create_regex_node(p, type))

(* The tree destroyed a second time *)
dispose_regex_tree_twice(p, tree) ==
  IF tree.root # NULL
  THEN destroy_regex_node(destroy_regex_node(p, tree.root), tree.root)
  ELSE p

dispose_regex_tree(p, tree) ==
  IF tree.root # NULL THEN destroy_regex_node(p, tree.root) ELSE p

EmptyTree == [root |-> NULL, leaf |-> NULL]

-----------------------------------------------------------------------------
(* Symbol table, regex.c:102-108 and regex.c:566-665 *)

(* The bytes parser_copy_string writes into dest: len bytes of the buffer   *)
(* from position start, then the terminator at dest[len].                  *)
parser_copy_string(p, start, len) == SubSeq(p.buf, start + 1, start + len) \o <<NUL>>

(* The loop of regex_symbol_name_eq: left is the name field of a table     *)
(* entry, the reference name is buf[start .. start + len).                 *)
regex_symbol_name_eq_loop(left, p, start, len) ==
  LET end == CHOOSE i \in 0..len :
               /\ \A j \in 0..(i - 1) : left[j + 1] # NUL
               /\ i = len \/ left[i + 1] = NUL
  IN /\ \A i \in 0..(end - 1) : left[i + 1] = p.buf[start + i + 1]
     /\ end = len
     /\ left[end + 1] = NUL

(* regex_symbol_name_eq without the test that the table name ends too *)
regex_symbol_name_eq_no_terminator(left, p, start, len) ==
  /\ Len(left) > len
  /\ \A i \in 1..len : left[i] = p.buf[start + i]

regex_symbol_name_eq(left, p, start, len) ==
  regex_symbol_name_eq_loop(left, p, start, len)

(* The list walk of get_or_create_regex_symbol: the first entry whose name *)
(* matches, NULL if none does.                                             *)
RECURSIVE find_regex_symbol(_, _, _, _)
find_regex_symbol(p, start, len, symbol) ==
  IF symbol > Len(p.symbols)
  THEN NULL
  ELSE IF regex_symbol_name_eq(p.symbols[symbol].name, p, start, len)
       THEN symbol
       ELSE find_regex_symbol(p, start, len, symbol + 1)

(* The length test without the byte of the terminator *)
regex_symbol_name_too_long_by_one(name_len) == name_len > MAX_REGEX_SYMBOL_NAME_LENGTH

(* name_len + 1 > MAX_REGEX_SYMBOL_NAME_LENGTH, regex.c:603 *)
regex_symbol_name_too_long(name_len) == name_len + 1 > MAX_REGEX_SYMBOL_NAME_LENGTH

(* hist.goc keeps, for every call, the name asked for, the names of the    *)
(* table before and after the call, the symbol returned and its expression *)
(* at the return.                                                          *)
SymbolNames(syms) == [i \in DOMAIN syms |-> syms[i].name]

get_or_create_regex_symbol(p, name_start, name_len) ==
  LET return(q, symbol) ==
        [p |-> [q EXCEPT !.hist.goc =
                  Append(@, [name |-> SubSeq(p.buf, name_start + 1, name_start + name_len),
                             before |-> SymbolNames(p.symbols),
                             after |-> SymbolNames(q.symbols),
                             symbol |-> symbol,
                             expression |-> IF symbol = NULL THEN NULL
                                            ELSE q.symbols[symbol].expression,
                             fresh |-> Len(q.symbols) # Len(p.symbols)])],
         symbol |-> symbol]
      created(q) == return(q, Len(q.symbols))
      looked_up(found) ==
        IF found # NULL
        THEN return(p, found)
        ELSE created([p EXCEPT !.symbols =
                        Append(@, [name |-> parser_copy_string(p, name_start, name_len),
                                   lexeme |-> FALSE,
                                   expression |-> NULL])])
  IN IF regex_symbol_name_too_long(name_len)
     THEN return(parser_error(p, "reference name too long"), NULL)
     ELSE looked_up(find_regex_symbol(p, name_start, name_len, 1))

RECURSIVE check_regex_symbols_from(_, _)
check_regex_symbols_from(syms, symbol) ==
  IF symbol > Len(syms)
  THEN 0
  ELSE IF syms[symbol].expression = NULL
       THEN -1
       ELSE check_regex_symbols_from(syms, symbol + 1)

(* check_regex_symbols stopping at the last symbol instead of after it *)
check_regex_symbols_but_last(syms) ==
  IF \E i \in 1..(Len(syms) - 1) : syms[i].expression = NULL THEN -1 ELSE 0

check_regex_symbols(syms) == check_regex_symbols_from(syms, 1)

(* destroy_regex_symbol has an empty body: nothing is released *)
destroy_regex_symbols(p) == p

-----------------------------------------------------------------------------
(* Atoms, regex.c:672-834 *)

(* hist.empty: some literal, sequence or branch ended with nothing in it *)
EmptyPosition(p) == [p EXCEPT !.hist.empty = TRUE]

(* The Range node of a literal character with an inclusive end *)
literal_range_inclusive(p, c) ==
  LET set(n) == R([n.p EXCEPT !.heap[n.node].start = c, !.heap[n.node].end = c], n.node)
  IN set(create_regex_node(p, "range"))

(* The Range node of one literal character, regex.c:694-700 *)
literal_range(p, c) ==
  LET set(n) == R([n.p EXCEPT !.heap[n.node].start = c, !.heap[n.node].end = c + 1], n.node)
  IN set(create_regex_node(p, "range"))

(* The loop of parse_literal.  The escape branch sets escaped and does not *)
(* skip: with escaped already set the next iteration is in the same state  *)
(* again, and so is every later one.                                       *)
RECURSIVE parse_literal_loop(_, _, _)
parse_literal_loop(p, tree, escaped) ==
  LET added(a) == parse_literal_loop(parser_skip(a.p), a.tree, FALSE)
      made(n) == added(add_to_regex_tree(n.p, tree, "sequence", n.node))
      closed(p1) == R(IF tree.root = NULL THEN EmptyPosition(p1) ELSE p1, tree.root)
  IN IF ~parser_has_more(p)
     THEN R(dispose_regex_tree(parser_error(p, "expected literal delimiter"), tree), NULL)
     ELSE IF parser_peek(p) = REGEX_PARSER_ESCAPE
          THEN IF escaped
               THEN R([p EXCEPT !.halt = "hang"], NULL)
               ELSE parse_literal_loop(p, tree, TRUE)
          ELSE IF ~escaped /\ parser_peek(p) = REGEX_PARSER_LITERAL
               THEN closed(parser_skip(p))
               ELSE made(literal_range(p, parser_peek(p)))

parse_literal(p) == parse_literal_loop(parser_skip(p), EmptyTree, FALSE)

(* Returns the parser, the result code and the bound *)
parse_regex_range_bound(p) ==
  LET read(c, p1) ==
        IF c = REGEX_PARSER_ESCAPE
        THEN IF ~parser_has_more(p1)
             THEN [p |-> parser_error(p1, "unexpected end of file, expected escaped character bound"),
                   rc |-> -1, dest |-> 0]
             ELSE [p |-> parser_skip(p1), rc |-> 0, dest |-> parser_peek(p1)]
        ELSE IF c = REGEX_PARSER_RANGE_END
             THEN [p |-> parser_error(p1, "invalid character, expected character range bound"),
                   rc |-> -1, dest |-> 0]
             ELSE [p |-> p1, rc |-> 0, dest |-> c]
  IN IF ~parser_has_more(p)
     THEN [p |-> parser_error(p, "unexpected end of file, expected character range bound"),
           rc |-> -1, dest |-> 0]
     ELSE read(parser_peek(p), parser_skip(p))

parse_regex_range(p) ==
  LET set(n, start, end) ==
        R([n.p EXCEPT !.heap[n.node].start = start, !.heap[n.node].end = end], n.node)
      range_end(p2, start, end) ==
        IF ~parser_has_more(p2)
        THEN R(parser_error(p2, "unexpected end of file, expected range separator"), NULL)
        ELSE IF parser_peek(p2) # REGEX_PARSER_RANGE_END
        THEN R(parser_error(p2, "unexpected character, expected range separator"), NULL)
        ELSE set(create_regex_node(parser_skip(p2), "range"), start, end)
      upper(e, start) ==
        IF e.rc # 0 THEN R(e.p, NULL)
        ELSE range_end(parser_skip_whitespace(e.p), start, e.dest)
      separator(p1, start) ==
        IF ~parser_has_more(p1)
        THEN R(parser_error(p1, "unexpected end of file, expected range separator"), NULL)
        ELSE IF parser_peek(p1) # REGEX_PARSER_RANGE_SEPARATOR
        THEN R(parser_error(p1, "unexpected character, expected range separator"), NULL)
        ELSE upper(parse_regex_range_bound(parser_skip_whitespace(parser_skip(p1))), start)
      lower(s) ==
        IF s.rc # 0 THEN R(s.p, NULL)
        ELSE separator(parser_skip_whitespace(s.p), s.dest)
  IN lower(parse_regex_range_bound(parser_skip_whitespace(parser_skip(p))))

parse_regex_reference(p) ==
  LET set(n, symbol) == R([n.p EXCEPT !.heap[n.node].symbol = symbol], n.node)
      got(g) ==
        IF g.symbol = NULL
        THEN R(parser_error(g.p, "symbol creation failed"), NULL)
        ELSE set(create_regex_node(g.p, "reference"), g.symbol)
      named(start, p2) == got(get_or_create_regex_symbol(p2, start, parser_pos(p2) - start))
      prefixed(p1) ==
        IF ~parser_has_more(p1)
        THEN R(parser_error(p1, "unexpected end of file, expected literal or expression end"), NULL)
        ELSE named(parser_pos(p1), parser_skip_while(p1, is_identifier))
  IN prefixed(parser_skip(p))

-----------------------------------------------------------------------------
(* Expressions, regex.c:844-1053.  A stopped parser is handed up unchanged: *)
(* no caller runs any further statement.                                   *)

RECURSIVE parse_regex_branch_loop(_, _)
RECURSIVE parse_regex_sequence_loop(_, _)
RECURSIVE parse_regex_loop(_)

parse_regex_branch(p) == parse_regex_branch_loop(p, EmptyTree)

parse_regex_group(p) ==
  LET group_end(p1, branch) ==
        IF ~parser_has_more(p1)
        THEN R(destroy_regex_node(
                 parser_error(p1, "unexpected end of file, expected statement end"),
                 branch), NULL)
        ELSE IF parser_peek(p1) # REGEX_PARSER_GROUP_END
        THEN R(destroy_regex_node(
                 parser_error(p1, "unexpected character, expected statement end"),
                 branch), NULL)
        ELSE R(parser_skip(p1), branch)
      parsed(b) == IF b.node = NULL THEN b ELSE group_end(parser_skip_whitespace(b.p), b.node)
  IN parsed(parse_regex_branch(parser_skip(p)))

parse_regex_expression(p) ==
  IF ~parser_has_more(p)
  THEN R(parser_error(p, "unexpected end of file, expected literal or expression end"), NULL)
  ELSE IF parser_peek(p) = REGEX_PARSER_LITERAL THEN parse_literal(p)
  ELSE IF parser_peek(p) = REGEX_PARSER_REFERENCE_PREFIX THEN parse_regex_reference(p)
  ELSE IF parser_peek(p) = REGEX_PARSER_GROUP_START THEN parse_regex_group(p)
  ELSE IF parser_peek(p) = REGEX_PARSER_RANGE_START THEN parse_regex_range(p)
  ELSE R(parser_error(p, "unexpected character, expected literal, group or statement end"),
         NULL)

parse_regex_loop_unwrapped(p) ==
  LET star(p1, body) ==
        IF ~parser_has_more(p1)
        THEN R(parser_assert_fail(p1), NULL)
        ELSE IF parser_peek(p1) = REGEX_PARSER_LOOP
        THEN R(parser_skip(p1), body)
        ELSE R(p1, body)
      parsed(b) ==
        IF b.node = NULL
        THEN b
        ELSE IF ~parser_has_more(b.p)
        THEN R(destroy_regex_node(
                 parser_error(b.p, "unexpected end of file, expected expression or statement end"),
                 b.node), NULL)
        ELSE star(parser_skip_whitespace(b.p), b.node)
  IN parsed(parse_regex_expression(p))

parse_regex_loop(p) ==
  LET set(n, body) == R([n.p EXCEPT !.heap[n.node].body = body], n.node)
      star(p1, body) ==
        IF ~parser_has_more(p1)
        THEN R(parser_assert_fail(p1), NULL)
        ELSE IF parser_peek(p1) = REGEX_PARSER_LOOP
        THEN set(create_regex_node(parser_skip(p1), "loop"), body)
        ELSE R(p1, body)
      parsed(b) ==
        IF b.node = NULL
        THEN b
        ELSE IF ~parser_has_more(b.p)
        THEN R(destroy_regex_node(
                 parser_error(b.p, "unexpected end of file, expected expression or statement end"),
                 b.node), NULL)
        ELSE star(parser_skip_whitespace(b.p), b.node)
  IN parsed(parse_regex_expression(p))

parse_regex_sequence_loop(p, tree) ==
  LET added(a) == parse_regex_sequence_loop(parser_skip_whitespace(a.p), a.tree)
      parsed(l) ==
        IF Stopped(l.p)
        THEN l
        ELSE IF l.node = NULL
        THEN R(dispose_regex_tree(l.p, tree), NULL)
        ELSE added(add_to_regex_tree(l.p, tree, "sequence", l.node))
  IN IF ~parser_has_more(p)
     THEN R(dispose_regex_tree(
              parser_error(p, "unexpected end of file, expected loop, expression or statement end"),
              tree), NULL)
     ELSE IF parser_peek(p) \in {REGEX_PARSER_STATEMENT_END, REGEX_PARSER_GROUP_END,
                                 REGEX_PARSER_BRANCH_SEPARATOR}
     THEN R(IF tree.root = NULL THEN EmptyPosition(p) ELSE p, tree.root)
     ELSE parsed(parse_regex_loop(p))

parse_regex_sequence(p) == parse_regex_sequence_loop(p, EmptyTree)

parse_regex_branch_loop(p, tree) ==
  LET added(a) ==
        IF ~parser_has_more(a.p)
        THEN R(dispose_regex_tree(
                 parser_error(a.p, "unexpected end of file, expected branch delimiter or statement end"),
                 a.tree), NULL)
        ELSE IF parser_peek(a.p) # REGEX_PARSER_BRANCH_SEPARATOR
        THEN R(a.p, a.tree.root)
        ELSE parse_regex_branch_loop(parser_skip_whitespace(parser_skip(a.p)), a.tree)
      parsed(s) ==
        IF Stopped(s.p)
        THEN s
        ELSE IF s.node = NULL
        THEN R(dispose_regex_tree(s.p, tree), NULL)
        ELSE added(add_to_regex_tree(s.p, tree, "branch", s.node))
  IN IF ~parser_has_more(p)
     THEN R(dispose_regex_tree(
              parser_error(p, "unexpected end of file, expected sequence, loop, expression or statement end"),
              tree), NULL)
     ELSE IF parser_peek(p) \in {REGEX_PARSER_STATEMENT_END, REGEX_PARSER_GROUP_END}
     THEN R(EmptyPosition(p), tree.root)
     ELSE parsed(parse_regex_sequence(p))

parse_regex_statement(p) ==
  LET statement_end(p1, branch) ==
        IF ~parser_has_more(p1)
        THEN R(destroy_regex_node(
                 parser_error(p1, "unexpected end of file, expected statement end"),
                 branch), NULL)
        ELSE IF parser_peek(p1) # REGEX_PARSER_STATEMENT_END
        THEN R(destroy_regex_node(
                 parser_error(p1, "unexpected character, expected statement end"),
                 branch), NULL)
        ELSE R(parser_skip(p1), branch)
      parsed(b) == IF b.node = NULL THEN b ELSE statement_end(parser_skip_whitespace(b.p), b.node)
  IN parsed(parse_regex_branch(p))

-----------------------------------------------------------------------------
(* Symbol definitions, regex.c:1061-1115 *)

(* parse_symbol without the test for an earlier definition *)
regex_symbol_defined_never(p, symbol) == FALSE

(* symbol->expression != NULL, regex.c:1082 *)
regex_symbol_defined(p, symbol) == p.symbols[symbol].expression # NULL

(* parse_symbol leaving the flag as get_or_create_regex_symbol set it *)
set_regex_symbol_lexeme_kept(p, symbol, lexeme) == p

(* symbol->lexeme = lexeme, regex.c:1087 *)
set_regex_symbol_lexeme(p, symbol, lexeme) == [p EXCEPT !.symbols[symbol].lexeme = lexeme]

(* hist.defs keeps, for every definition that found or created its symbol, *)
(* the symbol, whether the definition began with '@', whether the call     *)
(* created the symbol and whether the symbol already had its expression.   *)
parse_symbol(p) ==
  LET parsed(e, symbol) ==
        IF e.node = NULL
        THEN [p |-> e.p, rc |-> -1]
        ELSE [p |-> [e.p EXCEPT !.symbols[symbol].expression = e.node], rc |-> 0]
      statement(p5, symbol) ==
        IF ~parser_has_more(p5)
        THEN [p |-> parser_error(p5, "unexpected end, expected symbol definition or ';'"),
              rc |-> -1]
        ELSE parsed(parse_regex_statement(p5), symbol)
      comment(p4, symbol) ==
        IF ~parser_has_more(p4)
        THEN [p |-> parser_error(p4, "unexpected end, expected symbol definition or ';'"),
              rc |-> -1]
        ELSE statement(IF parser_peek(p4) = REGEX_PARSER_COMMENT
                       THEN parser_skip_whitespace(parser_skip_comment(p4))
                       ELSE p4,
                       symbol)
      define(p3, symbol, lexeme) ==
        IF regex_symbol_defined(p3, symbol)
        THEN [p |-> parser_error(p3, "multiple definitions for symbol"), rc |-> -1]
        ELSE comment(parser_skip_whitespace(set_regex_symbol_lexeme(p3, symbol, lexeme)), symbol)
      got(g, p2, lexeme) ==
        IF g.symbol = NULL
        THEN [p |-> g.p, rc |-> -1]
        ELSE define([g.p EXCEPT !.hist.defs =
                       Append(@, [symbol |-> g.symbol, lexeme |-> lexeme,
                                  fresh |-> Len(g.p.symbols) # Len(p2.symbols),
                                  defined |-> g.p.symbols[g.symbol].expression # NULL])],
                    g.symbol, lexeme)
      named(name_start, p2, lexeme) ==
        got(get_or_create_regex_symbol(p2, name_start, parser_pos(p2) - name_start), p2, lexeme)
      marked(p1, lexeme) == named(parser_pos(p1), parser_skip_while(p1, is_identifier), lexeme)
  IN marked(IF parser_peek(p) = REGEX_PARSER_LEXEME THEN parser_skip(p) ELSE p,
            parser_peek(p) = REGEX_PARSER_LEXEME)

-----------------------------------------------------------------------------
(* parse_regex_symbols, regex.c:1117-1170 *)

(* The loop going on after a failed parse_symbol *)
parse_symbol_failed_ignored(rc) == FALSE

(* The loop is left when parse_symbol fails, regex.c:1145-1149 *)
parse_symbol_failed(rc) == rc # 0

(* One iteration of while(parser_has_more(&parser)), regex.c:1139-1150:    *)
(* the parser afterwards, whether the iteration left the loop by break,    *)
(* and whether it was inside parse_symbol when it broke or stopped.        *)
parse_regex_symbols_iteration(p) ==
  LET parsed(s) ==
        IF Stopped(s.p)
        THEN [p |-> s.p, brk |-> FALSE, insym |-> TRUE]
        ELSE IF parse_symbol_failed(s.rc)
        THEN [p |-> destroy_regex_symbols(s.p), brk |-> TRUE, insym |-> TRUE]
        ELSE [p |-> s.p, brk |-> FALSE, insym |-> FALSE]
      body(p1) ==
        IF ~parser_has_more(p1)
        THEN [p |-> parser_assert_fail(p1), brk |-> FALSE, insym |-> FALSE]
        ELSE IF parser_peek(p1) = REGEX_PARSER_COMMENT
        THEN [p |-> parser_skip_comment(p1), brk |-> FALSE, insym |-> FALSE]
        ELSE parsed(parse_symbol(p1))
  IN body(parser_skip_whitespace(p))

(* The parser record of the current state *)
Parser ==
  [buf |-> buf, pos |-> pos, line |-> line, col |-> col, error |-> error,
   symbols |-> symbols, heap |-> heap, halt |-> "run", hist |-> hist]

ParseStep ==
  /\ pc = "loop"
  /\ parser_has_more(Parser)
  /\ \E it \in {parse_regex_symbols_iteration(Parser)} :
        /\ pos' = it.p.pos
        /\ line' = it.p.line
        /\ col' = it.p.col
        /\ error' = it.p.error
        /\ symbols' = it.p.symbols
        /\ heap' = it.p.heap
        /\ hist' = it.p.hist
        /\ insym' = it.insym
        /\ pc' = IF Stopped(it.p) THEN it.p.halt
                 ELSE IF it.brk THEN "post" ELSE "loop"
  /\ UNCHANGED <<buf, result, logged, nfa, matcher, nm, conc, lg, coll>>

(* The code after the loop, regex.c:1153-1169 *)
ParseFinish ==
  /\ \/ pc = "post"
     \/ pc = "loop" /\ ~parser_has_more(Parser)
  /\ IF ~parser_ok(Parser)
     THEN /\ logged' = Append(logged, [msg |-> error, line |-> line, col |-> col])
          /\ result' = "NULL"
     ELSE IF check_regex_symbols(symbols) # 0
          THEN /\ logged' = Append(logged, [msg |-> "unefined regex symbol", line |-> 0, col |-> 0])
               /\ result' = "NULL"
          ELSE /\ logged' = logged
               /\ result' = "symbols"
  /\ pc' = "done"
  /\ UNCHANGED <<buf, pos, line, col, error, symbols, heap, insym, hist, nfa, matcher, nm,
                 conc, lg, coll>>

-----------------------------------------------------------------------------
(* The automaton of regex.h and its builder, regex.c:1179-1400.            *)
(*                                                                         *)
(* A builder record n holds struct regex_nfa (states, size, symbols,       *)
(* symbols_len; len is the length of states), and what the run of the      *)
(* builder depends on besides the symbol table: mem, the number of         *)
(* allocations that succeed before one fails, and junk, the values read    *)
(* from memory or variables nothing was stored in.  State ids are 0-based  *)
(* as in the C code (state id is states[id + 1]).  oom tells that an       *)
(* allocation failed, built and ranges keep what was compiled.             *)

INITIAL_REGEX_NFA_BUFFER_SIZE == 32

(* char is a signed 8-bit integer in the build modelled here *)
CHAR_MIN == -128
CHAR_MAX == 127

(* Conversion of an int to char on assignment *)
ToChar(i) == ((i - CHAR_MIN) % (CHAR_MAX - CHAR_MIN + 1)) + CHAR_MIN

(* An allocation budget no build here uses up *)
NoLimit == 1000

(* Result of a build function: the builder, the return code, and *first    *)
(* and *last as the caller finds them afterwards.                          *)
B(n, rc, first, last) == [n |-> n, rc |-> rc, first |-> first, last |-> last]

(* A build function returning without storing into *first and *last: the   *)
(* caller's variables are as uninitialised as before.                      *)
Unset(n, rc) == B(n, rc, n.junk.first, n.junk.last)

(* The builder no longer runs: a store or load through a bad pointer ended *)
(* the process.                                                            *)
Crashed(n) == n.halt # "run"

(* nfa->states[id].field = value.  An id outside the states in use is an   *)
(* uninitialised value that was used as an index: the store ends the       *)
(* process or lands where no state is.                                     *)
set_regex_state(n, id, field, value) ==
  IF Crashed(n)
  THEN n
  ELSE IF id < Len(n.states)
  THEN [n EXCEPT !.states[id + 1][field] = value]
  ELSE IF n.junk.wild = "crash" THEN [n EXCEPT !.halt = "crash"] ELSE n

copy_regex_symbol_names(n, syms) ==
  LET count == Len(syms) - 1
      allocations == IF count = 0 THEN 0 ELSE 1 + count
  IN IF syms = <<>>
     THEN [n |-> [n EXCEPT !.halt = "crash"], rc |-> -1]
     ELSE IF n.mem < allocations
     THEN [n |-> [n EXCEPT !.mem = 0, !.oom = TRUE], rc |-> -1]
     ELSE [n |-> [n EXCEPT !.mem = @ - allocations,
                           !.symbols = [i \in 1..count |-> syms[i].name],
                           !.symbols_len = count],
           rc |-> 0]

(* add_regex_state with a buffer that is allocated anew when it grows *)
add_regex_state_fresh(n) ==
  LET grown(m) == [n |-> [m EXCEPT !.states = Append(@, m.junk.state)],
                   rc |-> 0, result |-> Len(m.states)]
  IN IF Len(n.states) = n.size
     THEN IF n.mem = 0
          THEN [n |-> [n EXCEPT !.oom = TRUE], rc |-> -1, result |-> 0]
          ELSE grown([n EXCEPT !.mem = @ - 1,
                               !.states = [i \in DOMAIN @ |-> n.junk.state],
                               !.size = IF n.size = 0 THEN INITIAL_REGEX_NFA_BUFFER_SIZE
                                        ELSE n.size * 2])
     ELSE grown(n)

(* The new state is what realloc left at its place: junk.state *)
add_regex_state(n) ==
  LET grown(m) == [n |-> [m EXCEPT !.states = Append(@, m.junk.state)],
                   rc |-> 0, result |-> Len(m.states)]
  IN IF Len(n.states) = n.size
     THEN IF n.mem = 0
          THEN [n |-> [n EXCEPT !.oom = TRUE], rc |-> -1, result |-> 0]
          ELSE grown([n EXCEPT !.mem = @ - 1,
                               !.size = IF n.size = 0 THEN INITIAL_REGEX_NFA_BUFFER_SIZE
                                        ELSE n.size * 2])
     ELSE grown(n)

RECURSIVE build_regex_nfa_from_node(_, _, _)

build_regex_sequence_nfa(n, h, node) == Unset(n, 0)

build_regex_branch_nfa(n, h, node) == Unset(n, 0)

(* n.ranges keeps, for every Range node compiled, the node and its state *)
build_regex_range_nfa(n, h, node) ==
  LET set(a) ==
        IF a.rc = -1
        THEN Unset(a.n, -1)
        ELSE B([a.n EXCEPT !.states[a.result + 1].lower = ToChar(h[node].start),
                           !.states[a.result + 1].upper = ToChar(h[node].end + 1),
                           !.states[a.result + 1].end = -1,
                           !.ranges = Append(@, [node |-> node, state |-> a.result])],
               0, a.result, a.result)
  IN set(add_regex_state(n))

(* Line 1281 assigns through start, a name that function does not declare: *)
(* no build has that statement.                                            *)
build_regex_loop_nfa(n, h, node) ==
  LET set(e, body_first, body_last) ==
        IF e.rc = -1
        THEN Unset(e.n, -1)
        ELSE B(set_regex_state([e.n EXCEPT !.states[e.result + 1].lower = 0,
                                           !.states[e.result + 1].upper = 0,
                                           !.states[e.result + 1].end = -1],
                               body_last, "then", e.result),
               0, body_first, e.result)
      built(b) ==
        IF b.rc = -1 \/ Crashed(b.n)
        THEN Unset(b.n, -1)
        ELSE set(add_regex_state(b.n), b.first, b.last)
  IN built(build_regex_nfa_from_node(n, h, h[node].body))

(* A Reference compiled by compiling the body of the referenced symbol in  *)
(* its place, given up after twice as many bodies as there are symbols     *)
build_regex_nfa_inlined(n, h, node) ==
  IF Len(n.built) > 2 * Len(symbols)
  THEN Unset(n, -1)
  ELSE build_regex_nfa_from_node([n EXCEPT !.built = Append(@, h[node].symbol)], h,
                                 symbols[h[node].symbol].expression)

(* The default case of the switch, regex.c:1314-1315 *)
build_regex_nfa_default(n, h, node) == Unset(n, -1)

build_regex_nfa_from_node(n, h, node) ==
  IF h[node].type = "sequence" THEN build_regex_sequence_nfa(n, h, node)
  ELSE IF h[node].type = "branch" THEN build_regex_branch_nfa(n, h, node)
  ELSE IF h[node].type = "range" THEN build_regex_range_nfa(n, h, node)
  ELSE IF h[node].type = "loop" THEN build_regex_loop_nfa(n, h, node)
  ELSE build_regex_nfa_default(n, h, node)

(* n.built keeps the symbols build_regex_nfa was called for *)
build_regex_nfa(n, h, start, syms, symbol, id) ==
  LET stitched(r) ==
        IF r.rc = 0 /\ ~Crashed(r.n)
        THEN [n |-> set_regex_state(
                      set_regex_state(
                        set_regex_state(
                          set_regex_state(r.n, start, "then", r.first),
                          r.last, "then", 0),
                        r.last, "otherwise", 0),
                      r.last, "end", id),
              rc |-> r.rc]
        ELSE [n |-> r.n, rc |-> r.rc]
  IN stitched(build_regex_nfa_from_node([n EXCEPT !.built = Append(@, symbol)], h,
                                        syms[symbol].expression))

(* state->otherwise = next_state, regex.c:1391.  state was taken before    *)
(* build_regex_nfa and add_regex_state ran: when one of them moved the     *)
(* buffer (the size differs from size_then) the store goes through a       *)
(* pointer into the buffer realloc released.                               *)
set_regex_state_otherwise(n, size_then, start, next_state) ==
  IF n.size = size_then \/ n.junk.wild = "kept"
  THEN [n EXCEPT !.states[start + 1].otherwise = next_state]
  ELSE IF n.junk.wild = "crash" THEN [n EXCEPT !.halt = "crash"] ELSE n

(* The loop over the symbols, regex.c:1371-1396: s and the symbols after   *)
(* it, s being the symbol number index + 1 of the table.                   *)
RECURSIVE parse_regex_nfa_loop(_, _, _, _, _, _)
parse_regex_nfa_loop(n, h, syms, s, index, start) ==
  LET chained(a, size_then) ==
        IF a.rc = -1
        THEN [a.n EXCEPT !.ret = -1]
        ELSE parse_regex_nfa_loop(
               set_regex_state_otherwise(a.n, size_then, start, a.result),
               h, syms, s + 1, index + 1, a.result)
      built(b, size_then) ==
        IF Crashed(b.n)
        THEN b.n
        ELSE IF b.rc = -1
        THEN [b.n EXCEPT !.ret = -1]
        ELSE IF s = Len(syms)
        THEN parse_regex_nfa_loop(
               [b.n EXCEPT !.states[start + 1].otherwise = b.n.states[start + 1].then],
               h, syms, s + 1, index + 1, start)
        ELSE chained(add_regex_state(b.n), size_then)
  IN IF Crashed(n)
     THEN n
     ELSE IF s >= Len(syms)
     THEN [n EXCEPT !.ret = 0]
     ELSE built(build_regex_nfa([n EXCEPT !.states[start + 1].lower = 0,
                                          !.states[start + 1].upper = 0,
                                          !.states[start + 1].end = -1],
                                h, start, syms, s, index),
                n.size)

(* parse_regex_nfa after parse_regex_symbols returned, regex.c:1349-1399 *)
parse_regex_nfa(n, h, syms, parsed) ==
  LET started(a) ==
        IF a.rc = -1
        THEN [a.n EXCEPT !.ret = -1]
        ELSE parse_regex_nfa_loop(a.n, h, syms, 1, 0, a.result)
      copied(c) ==
        IF Crashed(c.n)
        THEN c.n
        ELSE IF c.rc = -1
        THEN [c.n EXCEPT !.ret = -1]
        ELSE started(add_regex_state(c.n))
  IN IF parsed = "NULL"
     THEN [n EXCEPT !.ret = -1]
     ELSE copied(copy_regex_symbol_names([n EXCEPT !.states = <<>>, !.size = 0], syms))

(* struct regex_nfa before parse_regex_nfa is called *)
NoNfa ==
  [states |-> <<>>, size |-> 0, symbols |-> <<>>, symbols_len |-> 0, called |-> FALSE, ret |-> 0,
   halt |-> "run", built |-> <<>>, ranges |-> <<>>, oom |-> FALSE, mem |-> NoLimit,
   junk |-> [state |-> [lower |-> 0, upper |-> 0, then |-> 0, otherwise |-> 0, end |-> 0],
             first |-> 0, last |-> 0, wild |-> "lost"]]

(* What memory nothing was stored in holds, and what becomes of a store    *)
(* through a bad pointer                                                   *)
JunkStates ==
  { [lower |-> 0, upper |-> 0, then |-> 0, otherwise |-> 0, end |-> 0],
    [lower |-> 97, upper |-> 123, then |-> 1, otherwise |-> 1, end |-> -1],
    [lower |-> -1, upper |-> 1, then |-> 1, otherwise |-> 0, end |-> 1] }

JunkIds == {0, 1, INITIAL_REGEX_NFA_BUFFER_SIZE * 4}

WildStores == {"crash", "lost", "kept"}

AllocBudgets == {0, 1, NoLimit}

(* parse_regex_nfa from the return of parse_regex_symbols on.  Without a   *)
(* symbol table nothing is allocated and no state is built: the run does   *)
(* not depend on memory.                                                   *)
ParseRegexNfa ==
  /\ pc = "done"
  /\ ~nfa.called
  /\ \/ /\ result = "NULL"
        /\ nfa' = parse_regex_nfa([nfa EXCEPT !.called = TRUE], heap, symbols, result)
     \/ /\ result # "NULL"
        /\ \E mem \in AllocBudgets, state \in JunkStates, first \in JunkIds,
              last \in JunkIds, wild \in WildStores :
              \E n \in {parse_regex_nfa([nfa EXCEPT !.called = TRUE, !.mem = mem,
                                                      !.junk = [state |-> state,
                                                                first |-> first,
                                                                last |-> last,
                                                                wild |-> wild]],
                                          heap, symbols, result)} :
                 nfa' = [n EXCEPT !.mem = NoNfa.mem, !.junk = NoNfa.junk]
  /\ UNCHANGED <<buf, pos, line, col, error, symbols, heap, pc, result, insym, logged, hist,
                 matcher, nm, conc, lg, coll>>

-----------------------------------------------------------------------------
(* The matcher of regex.h, regex.c:1406-1412.  init_regex_matcher and      *)
(* match_regex return 0 and store nothing: the matcher holds what its      *)
(* memory held before (len and symbol of InitRegexMatcher).                *)

init_regex_matcher(m, n) == [m EXCEPT !.ret = 0]

match_regex(m, input) == [m EXCEPT !.ret = 0]

(* struct regex_matcher before init_regex_matcher is called; input keeps   *)
(* the string match_regex was called with.                                 *)
NoMatcher ==
  [called |-> FALSE, matched |-> FALSE, len |-> 0, symbol |-> 0, ret |-> 0, input |-> <<>>]

(* What the memory of a matcher holds before anything is stored in it *)
JunkSizes == {0, 1, 4}

(* Input strings: the bytes before the terminator *)
MatchInputs ==
  { <<>>, Str(<<"a">>), Str(<<"a", "b">>), Str(<<"b">>), Str(<<"x">>),
    Str(<<"1", "2", "3", "0", " ">>), Str(<<" ">>) }

InitRegexMatcher ==
  /\ nfa.called /\ nfa.ret = 0 /\ ~Crashed(nfa)
  /\ ~matcher.called
  /\ \E len \in JunkSizes, symbol \in JunkSizes :
        matcher' = init_regex_matcher([matcher EXCEPT !.called = TRUE, !.len = len,
                                                      !.symbol = symbol], nfa)
  /\ UNCHANGED <<buf, pos, line, col, error, symbols, heap, pc, result, insym, logged, hist,
                 nfa, nm, conc, lg, coll>>

MatchRegex ==
  /\ matcher.called
  /\ ~matcher.matched
  /\ \E input \in MatchInputs :
        matcher' = match_regex([matcher EXCEPT !.matched = TRUE, !.input = input], input)
  /\ UNCHANGED <<buf, pos, line, col, error, symbols, heap, pc, result, insym, logged, hist,
                 nfa, nm, conc, lg, coll>>

-----------------------------------------------------------------------------
(* The automaton and the matcher of regex_nfa.h, regex_nfa.c:21-155.       *)
(* The functions of regex_nfa.c write the field otherwise of a state under *)
(* the name branch.                                                        *)

INITIAL_NFA_SIZE == 32

(* State 0 is what malloc returned, with next set to 0 *)
init_regex_nfa(junk) == [states |-> <<[junk EXCEPT !.next = 0]>>, size |-> INITIAL_NFA_SIZE]

(* regex_nfa.c:49-56, add_regex_nfa_state once the buffer has room.  The   *)
(* result field of the new state is what the buffer held.                  *)
add_regex_nfa_state(n, junk) ==
  [states |-> Append(n.states, [junk EXCEPT !.predicate = 0, !.next = 0, !.otherwise = 0]),
   size |-> IF n.size = Len(n.states) THEN 2 * n.size ELSE n.size]

(* add_regex_nfa_state with its return value and *dest; allocated is the   *)
(* outcome of realloc when the buffer is full                              *)
add_regex_nfa_state_call(n, junk, allocated) ==
  IF n.size = Len(n.states) /\ ~allocated
  THEN [n |-> n, rc |-> -1, dest |-> -1]
  ELSE [n |-> add_regex_nfa_state(n, junk), rc |-> 0, dest |-> Len(n.states)]

set_regex_nfa_predicate(n, from, predicate) ==
  [n EXCEPT !.states[from + 1].predicate = predicate]

set_regex_nfa_otherwise(n, from, to) == [n EXCEPT !.states[from + 1].otherwise = to]

set_regex_nfa_next(n, from, to) == [n EXCEPT !.states[from + 1].next = to]

set_regex_nfa_start(n, start_id) == [n EXCEPT !.states[1].next = start_id]

(* malloc failed: LOG_ERROR and return NULL, which is 0 as an int; the     *)
(* matcher is left as it was.                                              *)
init_regex_nfa_matcher_failed(m) == [m EXCEPT !.ret = 0]

init_regex_nfa_matcher(m, max_len, allocated) ==
  IF max_len = 0
  THEN [m EXCEPT !.halt = "abort"]
  ELSE IF ~allocated
  THEN init_regex_nfa_matcher_failed(m)
  ELSE [m EXCEPT !.stack_len = 0, !.stack_size = max_len, !.result = 0, !.len = 0,
                 !.ret = 0]

reset_regex_nfa_matcher_all(m) ==
  [m EXCEPT !.stack_len = 0, !.stack_size = 0, !.result = 0, !.len = 0]

reset_regex_nfa_matcher(m) == [m EXCEPT !.stack_len = 0, !.result = 0, !.len = 0]

(* The return at the exhausted input, regex_nfa.c:130-135 *)
match_regex_nfa_exhausted(m, len) ==
  [m EXCEPT !.result = 0, !.len = len, !.ret = 0, !.exit = "incomplete"]

(* The return at len == stack_size, regex_nfa.c:136-141 *)
match_regex_nfa_full(m, len) ==
  [m EXCEPT !.result = 0, !.len = len, !.ret = 0, !.exit = "overflow"]

(* The loop of match_regex_nfa from state pos on: the set of its outcomes. *)
(* No statement of the loop changes str or len, so every iteration makes   *)
(* the same two tests; the second operand of the test at line 144 is       *)
(* missing, so that either branch may be the one taken when the predicate  *)
(* is not 0.  A state met again closes a cycle the loop never leaves, a    *)
(* position outside the automaton is a read outside its buffer.            *)
RECURSIVE match_regex_nfa_loop(_, _, _, _, _, _)
match_regex_nfa_loop(n, m, str, len, at, seen) ==
  IF str = <<>>
  THEN {match_regex_nfa_exhausted(m, len)}
  ELSE IF len = m.stack_size
  THEN {match_regex_nfa_full(m, len)}
  ELSE IF at >= Len(n.states)
  THEN {[m EXCEPT !.halt = "crash"]}
  ELSE IF at \in seen
  THEN {[m EXCEPT !.halt = "hang"]}
  ELSE UNION { match_regex_nfa_loop(n, m, str, len, q, seen \cup {at}) :
                 q \in IF n.states[at + 1].predicate \in {0, str[1]}
                       THEN {n.states[at + 1].next}
                       ELSE {n.states[at + 1].next, n.states[at + 1].otherwise} }

match_regex_nfa(n, m, str) == match_regex_nfa_loop(n, m, str, 0, 0, {})

(* struct regex_nfa_matcher before init_regex_nfa_matcher is called; n and *)
(* str keep the automaton and the string match_regex_nfa was called with,  *)
(* exit the return it left by, max_len and allocated the argument and the  *)
(* malloc result of init_regex_nfa_matcher; last and prev are the last two *)
(* functions called on the matcher, before its fields at the last call of  *)
(* reset_regex_nfa_matcher, resets the number of these calls.              *)
NoNfaMatcher ==
  [called |-> FALSE, matched |-> FALSE, stack_len |-> 0, stack_size |-> 0, result |-> 0,
   len |-> 0, ret |-> 0, halt |-> "run", exit |-> "none", n |-> [states |-> <<>>, size |-> 0],
   str |-> <<>>, max_len |-> 0, allocated |-> FALSE, last |-> "none", prev |-> "none",
   before |-> [stack_len |-> 0, stack_size |-> 0, result |-> 0, len |-> 0], resets |-> 0]

(* What a state of a fresh buffer holds *)
JunkNfaStates ==
  { [predicate |-> 0, next |-> 0, otherwise |-> 0, result |-> 0],
    [predicate |-> 97, next |-> 3, otherwise |-> 1, result |-> 1] }

(* Automata put together with the functions of regex_nfa.c: the empty one, *)
(* one for the text a, one for the text a or b followed by b.              *)
Automata ==
  UNION { LET n0 == init_regex_nfa(j)
              n1 == set_regex_nfa_start(
                      set_regex_nfa_predicate(add_regex_nfa_state(n0, j), 1, 97), 1)
              n2 == set_regex_nfa_next(
                      set_regex_nfa_otherwise(
                        set_regex_nfa_predicate(
                          set_regex_nfa_predicate(
                            add_regex_nfa_state(add_regex_nfa_state(n1, j), j), 2, 98),
                          3, 98),
                        1, 2),
                      1, 3)
          IN {n0, n1, n2} : j \in JunkNfaStates }

InitRegexNfaMatcher ==
  /\ ~nm.called
  /\ \E max_len \in 0..2, allocated \in BOOLEAN, size \in JunkSizes :
        nm' = init_regex_nfa_matcher(
                [nm EXCEPT !.called = TRUE, !.max_len = max_len, !.allocated = allocated,
                           !.stack_len = size, !.stack_size = size, !.result = size,
                           !.len = size, !.last = "init"],
                max_len, allocated)
  /\ UNCHANGED <<buf, pos, line, col, error, symbols, heap, pc, result, insym, logged, hist,
                 nfa, matcher, conc, lg, coll>>

MatchRegexNfa ==
  /\ nm.called
  /\ nm.halt = "run"
  /\ ~nm.matched
  /\ \E n \in Automata, str \in MatchInputs :
        nm' \in match_regex_nfa(n, [nm EXCEPT !.matched = TRUE, !.n = n, !.str = str,
                                               !.exit = "none", !.prev = nm.last,
                                               !.last = "match"], str)
  /\ UNCHANGED <<buf, pos, line, col, error, symbols, heap, pc, result, insym, logged, hist,
                 nfa, matcher, conc, lg, coll>>

MaxResets == 2

(* A caller resets the matcher between two scans *)
ResetRegexNfaMatcher ==
  /\ nm.called
  /\ nm.halt = "run"
  /\ nm.resets < MaxResets
  /\ nm' = reset_regex_nfa_matcher(
             [nm EXCEPT !.matched = FALSE, !.prev = nm.last, !.last = "reset",
                        !.resets = nm.resets + 1,
                        !.before = [stack_len |-> nm.stack_len, stack_size |-> nm.stack_size,
                                    result |-> nm.result, len |-> nm.len]])
  /\ UNCHANGED <<buf, pos, line, col, error, symbols, heap, pc, result, insym, logged, hist,
                 nfa, matcher, conc, lg, coll>>

-----------------------------------------------------------------------------
(* Two threads that call match_regex_nfa on one automaton, each with a     *)
(* matcher of its own.  A step of a thread is the entry of the function or *)
(* one iteration of its loop.                                              *)

Threads == {1, 2}

(* A thread before its call: m is its matcher, m0 the matcher as it was at *)
(* the call, str, len, size and at the argument and the locals of          *)
(* match_regex_nfa, seen the states the loop has been at                   *)
NoThread ==
  [pc |-> "idle", m |-> NoNfaMatcher, m0 |-> NoNfaMatcher, str |-> <<>>, len |-> 0, size |-> 0,
   at |-> 0, seen |-> {}]

(* n is the automaton, n0 the automaton as it was when the threads began,  *)
(* overlapped whether a thread has made a step while the other was inside  *)
(* the loop                                                                *)
NoConc ==
  [started |-> FALSE, n |-> [states |-> <<>>, size |-> 0], n0 |-> [states |-> <<>>, size |-> 0],
   th |-> [i \in Threads |-> NoThread], overlapped |-> FALSE]

(* regex_nfa.c:125-128, the locals of match_regex_nfa *)
match_regex_nfa_enter(c, i) ==
  [c EXCEPT !.th[i].pc = "loop", !.th[i].len = 0, !.th[i].size = c.th[i].m.stack_size,
            !.th[i].at = 0, !.th[i].seen = {}]

(* One iteration of the loop with the results stored in the matcher of     *)
(* thread 1, whichever thread runs it                                      *)
match_regex_nfa_iteration_shared(c, i) ==
  LET t == c.th[i]
  IN IF t.str = <<>>
     THEN {[c EXCEPT !.th[i].pc = "done", !.th[1].m = match_regex_nfa_exhausted(c.th[1].m, t.len)]}
     ELSE IF t.len = t.size
     THEN {[c EXCEPT !.th[i].pc = "done", !.th[1].m = match_regex_nfa_full(c.th[1].m, t.len)]}
     ELSE IF t.at >= Len(c.n.states)
     THEN {[c EXCEPT !.th[i].pc = "crash", !.th[i].m.halt = "crash"]}
     ELSE IF t.at \in t.seen
     THEN {[c EXCEPT !.th[i].pc = "hang", !.th[i].m.halt = "hang"]}
     ELSE { [c EXCEPT !.th[i].at = q, !.th[i].seen = t.seen \cup {t.at}] :
              q \in IF c.n.states[t.at + 1].predicate \in {0, t.str[1]}
                    THEN {c.n.states[t.at + 1].next}
                    ELSE {c.n.states[t.at + 1].next, c.n.states[t.at + 1].otherwise} }

(* One iteration of the loop, regex_nfa.c:129-154: the outcomes.  As in    *)
(* match_regex_nfa_loop, either branch may be taken at line 144, a state   *)
(* met again closes a cycle and a position outside the automaton is a read *)
(* outside its buffer.                                                     *)
match_regex_nfa_iteration(c, i) ==
  LET t == c.th[i]
  IN IF t.str = <<>>
     THEN {[c EXCEPT !.th[i].pc = "done", !.th[i].m = match_regex_nfa_exhausted(t.m, t.len)]}
     ELSE IF t.len = t.size
     THEN {[c EXCEPT !.th[i].pc = "done", !.th[i].m = match_regex_nfa_full(t.m, t.len)]}
     ELSE IF t.at >= Len(c.n.states)
     THEN {[c EXCEPT !.th[i].pc = "crash", !.th[i].m.halt = "crash"]}
     ELSE IF t.at \in t.seen
     THEN {[c EXCEPT !.th[i].pc = "hang", !.th[i].m.halt = "hang"]}
     ELSE { [c EXCEPT !.th[i].at = q, !.th[i].seen = t.seen \cup {t.at}] :
              q \in IF c.n.states[t.at + 1].predicate \in {0, t.str[1]}
                    THEN {c.n.states[t.at + 1].next}
                    ELSE {c.n.states[t.at + 1].next, c.n.states[t.at + 1].otherwise} }

(* The strings the two threads match *)
ThreadInputs == { <<>>, Str(<<"a">>), Str(<<"b">>) }

(* The matcher of a thread: what init_regex_nfa_matcher made of it, reset  *)
(* or not                                                                  *)
ThreadMatchers ==
  UNION { LET m == init_regex_nfa_matcher(
                     [NoNfaMatcher EXCEPT !.called = TRUE, !.max_len = max_len,
                                          !.allocated = allocated, !.stack_len = size,
                                          !.stack_size = size, !.result = size, !.len = size],
                     max_len, allocated)
          IN {m, reset_regex_nfa_matcher(m)} :
            max_len \in 1..2, allocated \in BOOLEAN, size \in JunkSizes }

(* The two threads are given the automaton, their matchers and strings *)
StartThreads ==
  /\ ~conc.started
  /\ \E n \in Automata, ms \in [Threads -> ThreadMatchers], strs \in [Threads -> ThreadInputs] :
        conc' = [conc EXCEPT !.started = TRUE, !.n = n, !.n0 = n,
                             !.th = [i \in Threads |->
                                       [NoThread EXCEPT !.pc = "enter", !.m = ms[i],
                                                        !.m0 = ms[i], !.str = strs[i]]]]
  /\ UNCHANGED <<buf, pos, line, col, error, symbols, heap, pc, result, insym, logged, hist,
                 nfa, matcher, nm, lg, coll>>

Overlaps(i) == \E j \in Threads \ {i} : conc.th[j].pc = "loop"

MatchEnter(i) ==
  /\ conc.started
  /\ conc.th[i].pc = "enter"
  /\ conc' = [match_regex_nfa_enter(conc, i) EXCEPT !.overlapped = @ \/ Overlaps(i)]
  /\ UNCHANGED <<buf, pos, line, col, error, symbols, heap, pc, result, insym, logged, hist,
                 nfa, matcher, nm, lg, coll>>

MatchIterate(i) ==
  /\ conc.started
  /\ conc.th[i].pc = "loop"
  /\ \E c \in match_regex_nfa_iteration(conc, i) :
        conc' = [c EXCEPT !.overlapped = @ \/ Overlaps(i)]
  /\ UNCHANGED <<buf, pos, line, col, error, symbols, heap, pc, result, insym, logged, hist,
                 nfa, matcher, nm, lg, coll>>

(* Two callers of match_regex_nfa at once *)
NextThreads ==
  \/ StartThreads
  \/ \E i \in Threads : MatchEnter(i)
  \/ \E i \in Threads : MatchIterate(i)

-----------------------------------------------------------------------------
(* A caller that fills a state collection: the states of struct regex_nfa  *)
(* with add_regex_state (regex.c), or those of regex_nfa.c with            *)
(* add_regex_nfa_state, storing into the first states in between.          *)

StatesSlack == 2

MaxMarked == 2

(* kind is the collection in use, n the struct regex_nfa of regex.h, a the *)
(* automaton of regex_nfa.h, junk what its fresh memory holds, mem the     *)
(* allocations that will succeed, rc and id the return value and the id    *)
(* stored by the last call, last the last function called                  *)
NoColl ==
  [kind |-> "none", n |-> NoNfa, a |-> [states |-> <<>>, size |-> 0],
   junk |-> [predicate |-> 0, next |-> 0, otherwise |-> 0, result |-> 0], mem |-> 0,
   rc |-> 0, id |-> 0, last |-> "none"]

CollStep(c) ==
  /\ coll' = c
  /\ UNCHANGED <<buf, pos, line, col, error, symbols, heap, pc, result, insym, logged, hist,
                 nfa, matcher, nm, conc, lg>>

(* regex.c:1366-1368, the empty collection of parse_regex_nfa *)
NewRegexStates ==
  /\ coll.kind = "none"
  /\ \E mem \in AllocBudgets, state \in JunkStates :
        CollStep([coll EXCEPT !.kind = "regex",
                              !.n = [NoNfa EXCEPT !.mem = mem, !.junk.state = state]])

(* regex_nfa.c:21-34, init_regex_nfa *)
NewRegexNfaStates ==
  /\ coll.kind = "none"
  /\ \E mem \in {0, 1}, junk \in JunkNfaStates :
        CollStep([coll EXCEPT !.kind = "nfa", !.a = init_regex_nfa(junk), !.junk = junk,
                              !.mem = mem])

AddRegexState ==
  /\ coll.kind = "regex"
  /\ Len(coll.n.states) < INITIAL_REGEX_NFA_BUFFER_SIZE + StatesSlack
  /\ \E r \in {add_regex_state(coll.n)} :
        CollStep([coll EXCEPT !.n = r.n, !.rc = r.rc, !.last = "add",
                              !.id = IF r.rc = 0 THEN r.result ELSE @])

AddRegexNfaState ==
  /\ coll.kind = "nfa"
  /\ Len(coll.a.states) < INITIAL_NFA_SIZE + StatesSlack
  /\ \E r \in {add_regex_nfa_state_call(coll.a, coll.junk, coll.mem > 0)} :
        CollStep([coll EXCEPT !.a = r.n, !.rc = r.rc, !.last = "add",
                              !.id = IF r.rc = 0 THEN r.dest ELSE @,
                              !.mem = IF coll.a.size = Len(coll.a.states) /\ @ > 0
                                      THEN @ - 1 ELSE @])

(* The caller stores into one of the first states *)
SetRegexState ==
  /\ coll.kind = "regex"
  /\ \E id \in 0..(MaxMarked - 1) :
        /\ id < Len(coll.n.states)
        /\ CollStep([coll EXCEPT !.n = set_regex_state(@, id, "end", id + 1),
                                 !.last = "set"])

SetRegexNfaPredicate ==
  /\ coll.kind = "nfa"
  /\ \E id \in 0..(MaxMarked - 1) :
        /\ id < Len(coll.a.states)
        /\ CollStep([coll EXCEPT !.a = set_regex_nfa_predicate(@, id, 98 + id),
                                 !.last = "set"])

NextStates ==
  \/ NewRegexStates
  \/ NewRegexNfaStates
  \/ AddRegexState
  \/ AddRegexNfaState
  \/ SetRegexState
  \/ SetRegexNfaPredicate

-----------------------------------------------------------------------------
(* The logger of parser.h: the threads that call log_message, the worker   *)
(* thread run_worker and the thread that calls stop_logger.  A step of a   *)
(* thread is one call of a pthread function together with the statements   *)
(* up to the next one.  Allocations and printing are taken to succeed.     *)

LOG_LEVEL_DEBUG == 0

LOG_LEVEL_INFO == 1

LOG_LEVEL_WARNING == 2

LOG_LEVEL_ERROR == 3

Callers == {"c1", "c2"}

MaxMsgs == 2

(* The statics of the logger and the threads: waiting, ready and q are the *)
(* queues as the messages reached from their heads, waiting_mutex is the   *)
(* owner of the mutex, wpc, spc and cpc the positions of the worker, of    *)
(* stop_logger and of the callers of log_message, sret the return value of *)
(* stop_logger, msg the message a caller holds.  pushed is every message   *)
(* in the order of push_log_msg, returned the messages whose log_message   *)
(* has returned 0, printed the output, quiet whether no log_message was in *)
(* progress when stop_logger was called, moved the queues before and      *)
(* after the last call of move_log_msgs.                                   *)
NoLogger ==
  [started |-> FALSE, min_log_level |-> LOG_LEVEL_DEBUG, running |-> FALSE, waiting |-> <<>>,
   ready |-> <<>>, q |-> <<>>, waiting_mutex |-> "free", wpc |-> "none", spc |-> "idle",
   sret |-> 0, cpc |-> [c \in Callers |-> "idle"],
   msg |-> [c \in Callers |-> [id |-> 0, level |-> LOG_LEVEL_DEBUG]], pushed |-> <<>>,
   returned |-> {}, printed |-> <<>>, quiet |-> FALSE,
   moved |-> [done |-> FALSE, dest0 |-> <<>>, src0 |-> <<>>, dest |-> <<>>, src |-> <<>>,
              tail |-> NULL]]

push_log_msg(q, msg) == Append(q, msg)

(* struct log_queue for the messages of s: a message is pointed to by its  *)
(* id, the next of the last message is NULL                                *)
log_queue(s) ==
  [head |-> IF s = <<>> THEN NULL ELSE s[1].id,
   tail |-> IF s = <<>> THEN NULL ELSE s[Len(s)].id]

(* parser.h:376-386 on the two structs: no next of any message is assigned *)
move_log_msgs_links(dest, src) ==
  IF src.head # NULL
  THEN [dest |-> [head |-> IF dest.head = NULL THEN src.head ELSE dest.head,
                  tail |-> src.tail],
        src |-> [head |-> NULL, tail |-> NULL]]
  ELSE [dest |-> dest, src |-> src]

(* The messages reached from message id through next *)
RECURSIVE ReachedFrom(_, _, _)
ReachedFrom(next, id, fuel) ==
  IF id = NULL \/ fuel = 0 THEN <<>> ELSE <<id>> \o ReachedFrom(next, next[id], fuel - 1)

(* parser.h:372-387 on the queues as the messages reached from their       *)
(* heads; tail is the tail of dest afterwards.  With a destination that is *)
(* not empty only tail and prev are assigned, the next of the old tail     *)
(* stays NULL.                                                             *)
move_log_msgs(dest, src) ==
  LET all == dest \o src
      msgs == {all[k] : k \in DOMAIN all}
      follows(seq, id) ==
        LET k == CHOOSE j \in DOMAIN seq : seq[j].id = id
        IN IF k = Len(seq) THEN NULL ELSE seq[k + 1].id
      next == [id \in {m.id : m \in msgs} |->
                 IF \E j \in DOMAIN dest : dest[j].id = id
                 THEN follows(dest, id) ELSE follows(src, id)]
      reached(q) ==
        LET ids == ReachedFrom(next, q.head, Len(all))
        IN [k \in DOMAIN ids |-> CHOOSE m \in msgs : m.id = ids[k]]
      moved(r) == [dest |-> reached(r.dest), src |-> reached(r.src), tail |-> r.dest.tail]
  IN moved(move_log_msgs_links(log_queue(dest), log_queue(src)))

(* The record of a call of move_log_msgs *)
Moved(dest, src, mv) ==
  [done |-> TRUE, dest0 |-> dest, src0 |-> src, dest |-> mv.dest, src |-> mv.src,
   tail |-> mv.tail]

(* What print_log_msgs writes: the messages of the queue at or above the   *)
(* minimum level, in the order of the queue                                *)
print_log_msgs(l, q) ==
  LET shown(m) == l.min_log_level <= m.level
  IN [l EXCEPT !.printed = l.printed \o SelectSeq(q, shown)]

(* print_log_msgs has no return statement: what its caller reads as the    *)
(* status                                                                  *)
PrintStatus == {"LOG_STATUS_OK", "LOG_STATUS_PRINT"}

(* pthread_mutex_unlock by thread self.  The mutex is a default mutex, for *)
(* which unlocking a mutex the thread does not hold is undefined: the call *)
(* may unlock it all the same or fail with EPERM.                          *)
pthread_mutex_unlock(l, self) ==
  IF l.waiting_mutex = self
  THEN {[l |-> [l EXCEPT !.waiting_mutex = "free"], err |-> FALSE]}
  ELSE {[l |-> [l EXCEPT !.waiting_mutex = "free"], err |-> FALSE], [l |-> l, err |-> TRUE]}

(* pthread_cond_signal: the worker is the one thread that ever waits *)
pthread_cond_signal(l) == IF l.wpc = "blocked" THEN [l EXCEPT !.wpc = "woken"] ELSE l

LoggerStep(l) ==
  /\ lg' = l
  /\ UNCHANGED <<buf, pos, line, col, error, symbols, heap, pc, result, insym, logged, hist,
                 nfa, matcher, nm, conc, coll>>

(* parser.h:588-604 *)
StartLogger ==
  /\ ~lg.started
  /\ \E min \in {LOG_LEVEL_DEBUG, LOG_LEVEL_WARNING} :
        LoggerStep([lg EXCEPT !.started = TRUE, !.min_log_level = min, !.running = TRUE,
                              !.waiting = <<>>, !.ready = <<>>, !.wpc = "lock"])

(* parser.h:538 and 571, pthread_mutex_lock in run_worker *)
WorkerLock ==
  /\ lg.wpc = "lock"
  /\ lg.waiting_mutex = "free"
  /\ LoggerStep([lg EXCEPT !.waiting_mutex = "worker", !.wpc = "check"])

(* parser.h:542-548 and 576-581: the worker reads running and leaves when  *)
(* it is false                                                             *)
WorkerCheck ==
  /\ lg.wpc = "check"
  /\ IF lg.running
     THEN LoggerStep([lg EXCEPT !.wpc = "wait"])
     ELSE \E u \in pthread_mutex_unlock(lg, "worker") :
             LoggerStep([u.l EXCEPT !.wpc = "exit", !.q = <<>>])

(* parser.h:550, pthread_cond_wait gives up the mutex and blocks *)
WorkerWait ==
  /\ lg.wpc = "wait"
  /\ LoggerStep([lg EXCEPT !.wpc = "blocked",
                           !.waiting_mutex = IF @ = "worker" THEN "free" ELSE @])

(* parser.h:550, pthread_cond_wait returns with the mutex once signalled *)
WorkerWake ==
  /\ lg.wpc = "woken"
  /\ lg.waiting_mutex = "free"
  /\ LoggerStep([lg EXCEPT !.waiting_mutex = "worker", !.wpc = "move"])

(* parser.h:556-560 *)
WorkerMove ==
  /\ lg.wpc = "move"
  /\ \E mv \in {move_log_msgs(lg.q, lg.waiting)} :
     \E u \in pthread_mutex_unlock(
                [lg EXCEPT !.q = mv.dest, !.waiting = mv.src,
                           !.moved = Moved(lg.q, lg.waiting, mv)], "worker") :
        LoggerStep(IF u.err THEN [u.l EXCEPT !.wpc = "exit", !.q = <<>>]
                   ELSE [u.l EXCEPT !.wpc = "print"])

(* parser.h:561-565 *)
WorkerPrint ==
  /\ lg.wpc = "print"
  /\ \E status \in PrintStatus :
        IF status = "LOG_STATUS_OK"
        THEN LoggerStep([print_log_msgs(lg, lg.q) EXCEPT !.wpc = "recycle"])
        ELSE \E u \in pthread_mutex_unlock(print_log_msgs(lg, lg.q), "worker") :
                LoggerStep([u.l EXCEPT !.wpc = "exit", !.q = <<>>])

(* parser.h:566-569, recycle_log_msgs *)
WorkerRecycle ==
  /\ lg.wpc = "recycle"
  /\ \E mv \in {move_log_msgs(lg.ready, lg.q)} :
        LoggerStep([lg EXCEPT !.ready = mv.dest, !.q = mv.src, !.wpc = "lock",
                              !.moved = Moved(lg.ready, lg.q, mv)])

Worker ==
  \/ WorkerLock
  \/ WorkerCheck
  \/ WorkerWait
  \/ WorkerWake
  \/ WorkerMove
  \/ WorkerPrint
  \/ WorkerRecycle

(* parser.h:606-637: a caller gets a message from get_log_msg and fills it *)
LogMessage(c) ==
  /\ lg.started
  /\ lg.spc = "idle"
  /\ lg.cpc[c] = "idle"
  /\ Len(lg.pushed) + Cardinality({d \in Callers : lg.cpc[d] \in {"lock", "push"}}) < MaxMsgs
  /\ \E level \in {LOG_LEVEL_DEBUG, LOG_LEVEL_WARNING} :
        LoggerStep([lg EXCEPT !.cpc[c] = "lock",
                              !.ready = IF @ = <<>> THEN @ ELSE Tail(@),
                              !.msg[c] = [id |-> 0, level |-> level]])

(* parser.h:639-642 *)
CallerLock(c) ==
  /\ lg.cpc[c] = "lock"
  /\ lg.waiting_mutex = "free"
  /\ LoggerStep([lg EXCEPT !.waiting_mutex = c, !.cpc[c] = "push"])

(* parser.h:643-646 *)
CallerPush(c) ==
  /\ lg.cpc[c] = "push"
  /\ \E m \in {[lg.msg[c] EXCEPT !.id = Len(lg.pushed) + 1]} :
     \E u \in pthread_mutex_unlock(
                [lg EXCEPT !.waiting = push_log_msg(@, m), !.pushed = Append(@, m),
                           !.msg[c] = m], c) :
        LoggerStep(IF u.err THEN [u.l EXCEPT !.cpc[c] = "idle"]
                   ELSE [u.l EXCEPT !.cpc[c] = "signal"])

(* parser.h:647-651 *)
CallerSignal(c) ==
  /\ lg.cpc[c] = "signal"
  /\ LoggerStep([pthread_cond_signal(lg) EXCEPT !.cpc[c] = "idle",
                                                !.returned = @ \cup {lg.msg[c].id}])

Caller(c) == CallerLock(c) \/ CallerPush(c) \/ CallerSignal(c)

(* stop_logger is called *)
StopLogger ==
  /\ lg.started
  /\ lg.spc = "idle"
  /\ LoggerStep([lg EXCEPT !.spc = "unlock",
                           !.quiet = \A c \in Callers : lg.cpc[c] = "idle"])

(* parser.h:659-663, the first call of stop_logger unlocks the mutex *)
StopUnlock ==
  /\ lg.spc = "unlock"
  /\ \E u \in pthread_mutex_unlock(lg, "stop") :
        LoggerStep(IF u.err THEN [u.l EXCEPT !.spc = "returned", !.sret = -1]
                   ELSE [u.l EXCEPT !.spc = "flag"])

(* parser.h:665 *)
StopFlag ==
  /\ lg.spc = "flag"
  /\ LoggerStep([lg EXCEPT !.running = FALSE, !.spc = "signal"])

(* parser.h:666-670 *)
StopSignal ==
  /\ lg.spc = "signal"
  /\ LoggerStep([pthread_cond_signal(lg) EXCEPT !.spc = "release"])

(* parser.h:672-676 *)
StopRelease ==
  /\ lg.spc = "release"
  /\ \E u \in pthread_mutex_unlock(lg, "stop") :
        LoggerStep(IF u.err THEN [u.l EXCEPT !.spc = "returned", !.sret = -1]
                   ELSE [u.l EXCEPT !.spc = "join"])

(* parser.h:678-691, pthread_join returns when the worker has left *)
StopJoin ==
  /\ lg.spc = "join"
  /\ lg.wpc = "exit"
  /\ LoggerStep([lg EXCEPT !.spc = "flush"])

(* parser.h:693-699 *)
StopFlush ==
  /\ lg.spc = "flush"
  /\ LoggerStep([print_log_msgs(lg, lg.waiting) EXCEPT !.waiting = <<>>, !.ready = <<>>,
                                                       !.spc = "returned", !.sret = 0])

Stopper ==
  \/ StopUnlock
  \/ StopFlag
  \/ StopSignal
  \/ StopRelease
  \/ StopJoin
  \/ StopFlush

(* A program that starts the logger, logs from two threads and stops it *)
NextLogger ==
  \/ StartLogger
  \/ Worker
  \/ \E c \in Callers : LogMessage(c)
  \/ \E c \in Callers : Caller(c)
  \/ StopLogger
  \/ Stopper

(* The program (main.c) runs parse_regex_symbols only *)
Next == ParseStep \/ ParseFinish

(* A caller of regex.h: parse_regex_nfa, init_regex_matcher, match_regex *)
NextRegex ==
  \/ ParseStep
  \/ ParseFinish
  \/ ParseRegexNfa
  \/ InitRegexMatcher
  \/ MatchRegex

(* A caller of regex_nfa.h: init_regex_nfa_matcher, match_regex_nfa,       *)
(* reset_regex_nfa_matcher                                                 *)
NextRegexNfa == InitRegexNfaMatcher \/ MatchRegexNfa \/ ResetRegexNfaMatcher

(* The state read_regex_file and parse_regex_symbols set up before the     *)
(* loop, regex.c:148-154 and regex.c:1127-1129, for the source text b      *)
InitParser(b) ==
  /\ buf = b
  /\ pos = 0
  /\ line = 1
  /\ col = 1
  /\ error = NoError
  /\ symbols = <<>>
  /\ heap = <<>>
  /\ pc = "loop"
  /\ result = "none"
  /\ insym = FALSE
  /\ logged = <<>>
  /\ hist = [err |-> <<>>, goc |-> <<>>, defs |-> <<>>, empty |-> FALSE]
  /\ nfa = NoNfa
  /\ matcher = NoMatcher
  /\ nm = NoNfaMatcher
  /\ conc = NoConc
  /\ lg = NoLogger
  /\ coll = NoColl

-----------------------------------------------------------------------------
(* Source texts the parser is run on *)

MaxStmts == 3

MaxToks == 4

MaxLit == 4

NameSlack == 2

(* Grammars: statements that define and reference the names a, ab and A *)
Stmts ==
  { Str(<<"a", " ", "\"", "x", "\"", ";">>),
    Str(<<"@", "a", " ", "$", "a", "b", ";">>),
    Str(<<"a", "b", " ", "\"", "x", "\"", ";">>),
    Str(<<"@", "a", "b", " ", "$", "a", ";">>),
    Str(<<"A", " ", "$", "a", ";", " ">>),
    Str(<<"@", "A", "\"", "x", "\"", ";", "\n">>),
    Str(<<"#", "a", "\n">>) }

Tails ==
  { <<>>, Str(<<"a">>), Str(<<"@", "a", "b", " ", "$", "A", ";">>),
    Str(<<"_", " ", "$", "a", "\"">>) }

Init ==
  \E ss \in SeqUpTo(Stmts, MaxStmts), t \in Tails : InitParser(Concat(ss) \o t)

Spec == Init /\ [][Next]_vars

(* Statement bodies: one definition of a whose body is put together from   *)
(* atoms, operators, unfinished atoms and white space                      *)
SyntaxToks ==
  { Str(<<"\"", "x", "\"">>), Str(<<"\"">>), Str(<<" ">>), Str(<<";">>), Str(<<"|">>),
    Str(<<"(">>), Str(<<")">>), Str(<<"*">>), Str(<<"[", "a", "-", "b", "]">>),
    Str(<<"[", "a">>), Str(<<"$", "b">>) }

InitSyntax ==
  \E ts \in SeqUpTo(SyntaxToks, MaxToks) : InitParser(Str(<<"a", " ">>) \o Concat(ts))

SpecSyntax == InitSyntax /\ [][Next]_vars

(* Literals: one definition of a whose body starts a literal *)
LitChars == { Ch[c] : c \in {"x", "y", " ", "\\", "\"", ";"} }

InitLiteral ==
  \E body \in SeqUpTo(LitChars, MaxLit) :
     InitParser(Str(<<"a", " ", "\"">>) \o body \o Str(<<"\"", ";">>))

SpecLiteral == InitLiteral /\ [][Next]_vars

(* Names: a definition or a reference whose identifier is about as long as *)
(* the name field of a symbol                                              *)
NameLengths == (MAX_REGEX_SYMBOL_NAME_LENGTH - NameSlack - 1)..(MAX_REGEX_SYMBOL_NAME_LENGTH + NameSlack)

NameHeads == { <<>>, Str(<<"@">>), Str(<<"b", " ", "$">>), Str(<<"@", "b", " ", "\"", "x", "\"", "$">>) }

NameTails == { <<>>, Str(<<";">>), Str(<<" ", "\"", "x", "\"", ";">>), Str(<<" ", "$", "b", ";">>) }

InitNames ==
  \E n \in NameLengths, c \in {Ch["a"], Ch["A"], Ch["_"], Ch["0"]}, h \in NameHeads, t \in NameTails :
     InitParser(h \o [i \in 1..n |-> c] \o t)

SpecNames == InitNames /\ [][Next]_vars

MaxAnonStmts == 3

(* Statements that begin with an identifier, with a literal, with a lexeme *)
(* mark and no identifier, or that hold a reference without an identifier  *)
AnonStmts ==
  { Str(<<"a", " ", "\"", "x", "\"", ";">>),
    Str(<<"\"", "x", "\"", ";">>),
    Str(<<"@", "\"", "y", "\"", ";">>),
    Str(<<"b", " ", "$", ";">>),
    Str(<<"$", "a", ";">>),
    Str(<<" ", "[", "x", "-", "y", "]", ";">>) }

InitAnon ==
  \E ss \in SeqUpTo(AnonStmts, MaxAnonStmts) : InitParser(Concat(ss))

SpecAnon == InitAnon /\ [][Next]_vars

MaxPrecToks == 5

(* Statement bodies put together from whole atoms, groups and operators *)
PrecToks ==
  { Str(<<"\"", "x", "y", "\"">>), Str(<<"[", "a", "-", "b", "]">>), Str(<<"$", "b">>),
    Str(<<"|">>), Str(<<"*">>), Str(<<"(">>), Str(<<")">>), Str(<<" ">>) }

InitPrecedence ==
  \E ts \in SeqUpTo(PrecToks, MaxPrecToks) :
     InitParser(Str(<<"a", " ">>) \o Concat(ts) \o Str(<<";">>))

SpecPrecedence == InitPrecedence /\ [][Next]_vars

MaxRegexStmts == 3

(* Grammars of ranges, loops, references, sequences and branches *)
RegexStmts ==
  { Str(<<"@", "a", " ", "[", "a", "-", "b", "]", ";">>),
    Str(<<"b", " ", "[", "x", "-", "y", "]", ";">>),
    Str(<<"@", "b", " ", "[", "b", "-", "DEL", "]", ";">>),
    Str(<<"@", "x", " ", "[", "a", "-", "b", "]", "*", ";">>),
    Str(<<"x", " ", "$", "x", ";">>),
    Str(<<"@", "y", " ", "$", "a", ";">>),
    Str(<<"@", "A", " ", "[", "a", "-", "a", "]", "[", "b", "-", "b", "]", ";">>),
    Str(<<"@", "_", " ", "[", "a", "-", "a", "]", "|", "[", "a", "-", "b", "]", ";">>) }

(* The grammar @num [0-9]*"0"; @ws " "*; *)
ExampleGrammar ==
  Str(<<"@", "n", "u", "m", " ", "[", "0", "-", "9", "]", "*", "\"", "0", "\"", ";", " ",
        "@", "w", "s", " ", "\"", " ", "\"", "*", ";">>)

InitRegex ==
  \/ \E ss \in SeqUpTo(RegexStmts, MaxRegexStmts) : InitParser(Concat(ss))
  \/ InitParser(ExampleGrammar)

SpecRegex == InitRegex /\ [][NextRegex]_vars

(* Grammars of one-character literals, and the same grammars written with  *)
(* ranges                                                                  *)
LiteralStmts ==
  { Str(<<"@", "a", " ", "\"", "x", "\"", ";">>),
    Str(<<"@", "b", " ", "\"", "y", "\"", "*", ";">>),
    Str(<<"@", "x", " ", "\"", "DEL", "\"", ";">>),
    Str(<<"y", " ", "\"", "x", "\"", ";">>) }

BracketStmts ==
  { Str(<<"@", "a", " ", "[", "x", "-", "x", "]", ";">>),
    Str(<<"@", "b", " ", "[", "y", "-", "y", "]", "*", ";">>),
    Str(<<"y", " ", "[", "x", "-", "y", "]", ";">>) }

MaxLiteralStmts == 2

InitLiteralNfa ==
  \E ss \in SeqUpTo(LiteralStmts, MaxLiteralStmts) \cup SeqUpTo(BracketStmts, MaxLiteralStmts) :
     InitParser(Concat(ss))

SpecLiteralNfa == InitLiteralNfa /\ [][NextRegex]_vars

(* Grammars of ranges written with their bounds in order, equal and        *)
(* reversed, next to a literal                                             *)
RangeStmts ==
  { Str(<<"@", "a", " ", "[", "x", "-", "y", "]", ";">>),
    Str(<<"@", "b", " ", "[", "y", "-", "x", "]", ";">>),
    Str(<<"x", " ", "[", "y", "-", "a", "]", "*", ";">>),
    Str(<<"@", "y", " ", "[", "x", "-", "x", "]", ";">>),
    Str(<<"A", " ", "\"", "x", "\"", ";">>) }

MaxRangeStmts == 2

InitRangeNfa ==
  \E ss \in SeqUpTo(RangeStmts, MaxRangeStmts) : InitParser(Concat(ss))

SpecRangeNfa == InitRangeNfa /\ [][NextRegex]_vars

InitRegexNfa == InitParser(<<>>)

SpecStates == InitRegexNfa /\ [][NextStates]_vars

SpecThreads == InitRegexNfa /\ [][NextThreads]_vars

InitLogger == InitParser(<<>>)

SpecLogger == InitLogger /\ [][NextLogger]_vars

(* Every thread that can make a step makes one in the end; when            *)
(* log_message and stop_logger are called is up to the program             *)
SpecLoggerFair ==
  /\ InitLogger
  /\ [][NextLogger]_vars
  /\ WF_vars(Worker)
  /\ WF_vars(Stopper)
  /\ \A c \in Callers : WF_vars(Caller(c))

SpecRegexNfa == InitRegexNfa /\ [][NextRegexNfa]_vars

-----------------------------------------------------------------------------
(* Properties *)

(* The text of a name field: its bytes before the terminator *)
CString(name) ==
  LET ends == {i \in DOMAIN name : name[i] = NUL}
  IN IF ends = {} THEN name
     ELSE SubSeq(name, 1, (CHOOSE i \in ends : \A j \in ends : i <= j) - 1)

(* The elements of a sequence in the order of their first occurrence *)
RECURSIVE FirstOccurrences(_)
FirstOccurrences(s) ==
  IF s = <<>> THEN <<>>
  ELSE LET front == FirstOccurrences(SubSeq(s, 1, Len(s) - 1))
           last == s[Len(s)]
       IN IF \E i \in DOMAIN front : front[i] = last THEN front ELSE Append(front, last)

(* 1 + the number of newlines in buf[0..n) *)
LineAt(b, n) == 1 + Cardinality({i \in 1..n : b[i] \in is_newline})

(* 1 + the number of bytes of buf[0..n) after its last newline *)
ColAt(b, n) ==
  LET nl == {i \in 1..n : b[i] \in is_newline}
  IN IF nl = {} THEN 1 + n ELSE 1 + n - (CHOOSE i \in nl : \A j \in nl : j <= i)

Defined == {i \in DOMAIN symbols : symbols[i].expression # NULL}

(* C1: every call of get_or_create_regex_symbol returns the registered     *)
(* symbol whose name equals the requested identifier byte for byte and     *)
(* leaves the table as it is, or, when there is none, appends one symbol   *)
(* with that name and no expression at the tail; the table never holds a   *)
(* name twice and lists the names in the order of their first occurrence.  *)
C1_GetOrCreateSymbol ==
  /\ \A i, j \in DOMAIN symbols :
       CString(symbols[i].name) = CString(symbols[j].name) => i = j
  /\ \A k \in DOMAIN hist.goc :
       LET e == hist.goc[k]
           known == {i \in DOMAIN e.before : CString(e.before[i]) = e.name}
       IN /\ e.before = IF k = 1 THEN <<>> ELSE hist.goc[k - 1].after
          /\ Len(e.name) < MAX_REGEX_SYMBOL_NAME_LENGTH =>
               IF known # {}
               THEN e.symbol \in known /\ e.after = e.before /\ ~e.fresh
               ELSE /\ e.after = Append(e.before, e.name \o <<NUL>>)
                    /\ e.symbol = Len(e.after)
                    /\ e.fresh
                    /\ e.expression = NULL
  /\ SymbolNames(symbols) =
       FirstOccurrences([k \in DOMAIN hist.goc |-> hist.goc[k].name \o <<NUL>>])

(* C1 witness: a parsed table of three names, one a prefix of another and  *)
(* one differing only in case, after a call that found its symbol          *)
C1_Witness ==
  /\ pc = "done"
  /\ result = "symbols"
  /\ Len(symbols) = 3
  /\ \E k \in DOMAIN hist.goc : ~hist.goc[k].fresh

(* C2: a definition of a symbol that already has its expression records    *)
(* the duplicate-symbol error, ends the parse there, and                   *)
(* parse_regex_symbols returns NULL.                                       *)
C2_DuplicateDefinitionFails ==
  \A k \in DOMAIN hist.defs :
     hist.defs[k].defined =>
       /\ error = "multiple definitions for symbol"
       /\ k = Len(hist.defs)
       /\ pc \in {"post", "done"}
       /\ pc = "done" => result = "NULL"

(* C2 witness: parse_regex_symbols has returned after a second definition  *)
(* of a defined symbol                                                     *)
C2_Witness ==
  /\ pc = "done"
  /\ \E k \in DOMAIN hist.defs : hist.defs[k].defined
  /\ Defined # {}

(* C3: parse_regex_symbols returns a table only if every registered symbol *)
(* has an expression; with a symbol left without one it returns NULL.      *)
C3_TableIsComplete ==
  pc = "done" =>
    /\ result = "symbols" => \A i \in DOMAIN symbols : symbols[i].expression # NULL
    /\ (\E i \in DOMAIN symbols : symbols[i].expression = NULL) => result = "NULL"

(* C3 witness: the parse ended without a parse error and NULL was returned *)
(* for a symbol that only a reference registered                           *)
C3_Witness ==
  /\ pc = "done"
  /\ error = NoError
  /\ result = "NULL"
  /\ \E i \in DOMAIN symbols :
        /\ symbols[i].expression = NULL
        /\ \A k \in DOMAIN hist.defs : hist.defs[k].symbol # i

(* C4: in a returned table a symbol is a lexeme exactly when its           *)
(* definition began with '@', also when a reference created it first.      *)
C4_LexemeFromDefinition ==
  (pc = "done" /\ result = "symbols") =>
    \A i \in DOMAIN symbols :
       \E k \in DOMAIN hist.defs :
          /\ hist.defs[k].symbol = i
          /\ symbols[i].lexeme = hist.defs[k].lexeme

(* C4 witness: a returned table with a lexeme that a reference had created *)
(* before its definition                                                   *)
C4_Witness ==
  /\ pc = "done"
  /\ result = "symbols"
  /\ \E k \in DOMAIN hist.defs : hist.defs[k].lexeme /\ ~hist.defs[k].fresh

(* C5: when the source ends inside a definition, before the ';' of its     *)
(* statement, the parser records a parse error with the line and column    *)
(* where the scan stopped and parse_regex_symbols returns NULL.  (Ends     *)
(* after an empty position are left to C6.)                                *)
C5_EndOfFileIsParseError ==
  (pc # "loop" /\ insym /\ pos = Len(buf) /\ ~hist.empty) =>
    /\ pc \in {"post", "done"}
    /\ error # NoError
    /\ pc = "done" =>
         /\ result = "NULL"
         /\ logged = <<[msg |-> error, line |-> LineAt(buf, pos), col |-> ColAt(buf, pos)]>>

(* C6: an empty statement, group, literal or alternative makes the parse   *)
(* fail with parser->error set.                                            *)
C6_EmptyPositionIsParseError ==
  (pc = "done" /\ hist.empty) => (error # NoError /\ result = "NULL")

(* C7: once a parse error is recorded the parser consumes no further       *)
(* input, registers no further symbol, attaches no further expression,     *)
(* has left the loop, and parse_regex_symbols returns NULL.                *)
C7_HaltsAtFirstError ==
  error # NoError =>
    /\ Len(hist.err) = 1
    /\ pos = hist.err[1].pos
    /\ Len(symbols) = hist.err[1].nsyms
    /\ Cardinality(Defined) = hist.err[1].ndef
    /\ pc \in {"post", "done"}
    /\ pc = "done" => result = "NULL"

(* C7 witness: NULL was returned for an error met with input left over     *)
C7_Witness ==
  /\ pc = "done"
  /\ error # NoError
  /\ result = "NULL"
  /\ pos + 2 <= Len(buf)

(* C8: a literal holding a backslash and one more character parses, to the *)
(* single Range of that character.                                         *)
C8_EscapeInLiteral ==
  LET body == SubSeq(buf, 4, Len(buf) - 2)
  IN (pc # "loop" /\ Len(body) = 2 /\ body[1] = REGEX_PARSER_ESCAPE) =>
       /\ pc = "done"
       /\ result = "symbols"
       /\ heap[symbols[1].expression].type = "range"
       /\ heap[symbols[1].expression].start = body[2]
       /\ heap[symbols[1].expression].end = body[2] + 1

(* C9: an identifier of 128 bytes or more is rejected with a parse error   *)
(* and registers no symbol; a shorter one is accepted and its name field   *)
(* holds the identifier and the terminator within its 128 bytes.           *)
C9_NameLength ==
  /\ \A i \in DOMAIN symbols :
        /\ Len(symbols[i].name) <= MAX_REGEX_SYMBOL_NAME_LENGTH
        /\ symbols[i].name[Len(symbols[i].name)] = NUL
        /\ Len(CString(symbols[i].name)) = Len(symbols[i].name) - 1
  /\ \A k \in DOMAIN hist.goc :
        LET e == hist.goc[k]
        IN IF Len(e.name) >= MAX_REGEX_SYMBOL_NAME_LENGTH
           THEN /\ e.symbol = NULL
                /\ e.after = e.before
                /\ error # NoError
                /\ pc = "done" => result = "NULL"
           ELSE /\ e.symbol # NULL
                /\ e.after[e.symbol] = e.name \o <<NUL>>

(* C9 witness: an identifier of exactly 128 bytes was rejected *)
C9_Witness ==
  /\ pc = "done"
  /\ \E k \in DOMAIN hist.goc :
        Len(hist.goc[k].name) = MAX_REGEX_SYMBOL_NAME_LENGTH /\ hist.goc[k].symbol = NULL

(* The body of the literal when the source is one definition of a whose    *)
(* statement is one literal without escapes, <<>> otherwise                *)
LiteralBody ==
  LET body == SubSeq(buf, 4, Len(buf) - 2)
  IN IF /\ Len(buf) >= 5
        /\ SubSeq(buf, 1, 3) = Str(<<"a", " ", "\"">>)
        /\ \A i \in DOMAIN body : body[i] \notin {REGEX_PARSER_LITERAL, REGEX_PARSER_ESCAPE}
     THEN body
     ELSE <<>>

(* The leaves under a node, left to right, going down Sequence nodes only *)
RECURSIVE SequenceLeaves(_, _)
SequenceLeaves(h, n) ==
  IF h[n].type = "sequence"
  THEN SequenceLeaves(h, h[n].left) \o SequenceLeaves(h, h[n].right)
  ELSE <<n>>

-----------------------------------------------------------------------------
(* Properties of the automaton builder and the matchers *)

(* parse_regex_nfa has returned *)
Compiled == nfa.called /\ ~Crashed(nfa)

(* The source has no literal: every Range node is a range [a-b] as written *)
OnlyRanges == \A i \in DOMAIN buf : buf[i] # REGEX_PARSER_LITERAL

(* The bytes a state lets pass: lower inclusive, upper exclusive *)
StateAccepts(state) == {c \in CHAR_MIN..CHAR_MAX : state.lower <= c /\ c < state.upper}

(* C11: the state compiled for a range [a-b], a <= b, accepts exactly the  *)
(* bytes a..b: lower = a and upper = b + 1 without wrapping around in the  *)
(* char-sized field, also for the largest byte.                            *)
C11_RangeStateBounds ==
  OnlyRanges =>
    \A i \in DOMAIN nfa.ranges :
       LET node == heap[nfa.ranges[i].node]
           state == nfa.states[nfa.ranges[i].state + 1]
       IN node.start <= node.end =>
            /\ state.lower = node.start
            /\ state.upper = node.end + 1
            /\ StateAccepts(state) = node.start..node.end

(* The indices of the lexeme symbols, in the order of the table, as        *)
(* parse_regex_nfa numbers the symbols (from 0)                            *)
LexemeIds == {i - 1 : i \in {j \in DOMAIN symbols : symbols[j].lexeme}}

Lexemes == SelectSeq([i \in DOMAIN symbols |-> i - 1], LAMBDA id : id \in LexemeIds)

(* The end field of the exit of the fragment entered at state s: the first *)
(* end that is not -1 along the then links, -1 if there is none            *)
RECURSIVE FragmentExit(_, _, _)
FragmentExit(states, s, fuel) ==
  IF fuel = 0 \/ s >= Len(states) THEN -1
  ELSE IF states[s + 1].end # -1 THEN states[s + 1].end
  ELSE FragmentExit(states, states[s + 1].then, fuel - 1)

(* The dispatch chain from start state c on: the start states linked by    *)
(* otherwise, each with the end its then link leads to                     *)
RECURSIVE DispatchChain(_, _, _)
DispatchChain(states, c, fuel) ==
  IF fuel = 0 \/ c >= Len(states) THEN <<>>
  ELSE LET exit == FragmentExit(states, states[c + 1].then, Len(states))
           entry == IF exit = -1 THEN <<>> ELSE <<exit>>
       IN IF states[c + 1].otherwise <= c
          THEN entry
          ELSE entry \o DispatchChain(states, states[c + 1].otherwise, fuel - 1)

Dispatch == DispatchChain(nfa.states, 0, Len(nfa.states))

(* parse_regex_nfa returned 0 *)
CompiledOk == Compiled /\ result = "symbols" /\ nfa.ret = 0

(* C12: after parse_regex_nfa succeeds the dispatch chain has one entry    *)
(* for every lexeme symbol, in the order of the table, each leading to a   *)
(* fragment whose exit carries that symbol; also for the last symbol and   *)
(* for a table of one symbol.                                              *)
C12_DispatchHasEveryLexeme ==
  CompiledOk =>
    /\ Dispatch = Lexemes
    /\ \A k \in DOMAIN Lexemes : \E j \in DOMAIN nfa.built : nfa.built[j] = Lexemes[k] + 1

(* C13: no state of a compiled automaton carries the index of a fragment   *)
(* symbol in its end field, and the dispatch chain enters no fragment      *)
(* symbol.                                                                 *)
C13_NoFragmentAccepts ==
  CompiledOk =>
    /\ \A i \in DOMAIN nfa.states : nfa.states[i].end # -1 => nfa.states[i].end \in LexemeIds
    /\ \A k \in DOMAIN Dispatch : Dispatch[k] \in LexemeIds

(* C14: for a table that passed the completeness check parse_regex_nfa     *)
(* returns -1 only when an allocation failed.                              *)
C14_CompileFailsOnlyOnAllocation ==
  (nfa.called /\ result = "symbols" /\ nfa.ret = -1) => nfa.oom

(* C15: compiling a grammar with a symbol that references itself returns,  *)
(* the body of a symbol is compiled at most once, and the automaton has no *)
(* more states than the expression trees have nodes plus one per symbol    *)
(* and one.                                                                *)
C15_CompileIsBounded ==
  nfa.called =>
    /\ \A j, k \in DOMAIN nfa.built : nfa.built[j] = nfa.built[k] => j = k
    /\ Len(nfa.states) <= Len(heap) + Len(symbols) + 1

(* C15 witness: parse_regex_nfa has returned after build_regex_nfa was     *)
(* called for a symbol whose body is a reference to that symbol            *)
C15_Witness ==
  /\ Compiled
  /\ result = "symbols"
  /\ \E j \in DOMAIN nfa.built :
        /\ heap[symbols[nfa.built[j]].expression].type = "reference"
        /\ heap[symbols[nfa.built[j]].expression].symbol = nfa.built[j]

(* The positions where a match of the expression at node that starts at    *)
(* position from of the input can end; a range [a-b] takes one byte of     *)
(* a..b, a reference is followed fuel times                                *)
RECURSIVE MatchEnds(_, _, _, _)
MatchEnds(node, input, from, fuel) ==
  LET e == heap[node]
  IN IF e.type = "range"
     THEN IF from < Len(input) /\ e.start <= input[from + 1] /\ input[from + 1] <= e.end
          THEN {from + 1} ELSE {}
     ELSE IF e.type = "sequence"
     THEN UNION {MatchEnds(e.right, input, m, fuel) : m \in MatchEnds(e.left, input, from, fuel)}
     ELSE IF e.type = "branch"
     THEN MatchEnds(e.left, input, from, fuel) \cup MatchEnds(e.right, input, from, fuel)
     ELSE IF e.type = "loop"
     THEN {from} \cup UNION {MatchEnds(node, input, m, fuel) :
                               m \in MatchEnds(e.body, input, from, fuel) \ {from}}
     ELSE IF fuel = 0 THEN {}
     ELSE MatchEnds(symbols[e.symbol].expression, input, from, fuel - 1)

(* The matches of the lexeme symbols on a prefix of the input that is not  *)
(* empty: symbol index and length                                          *)
Candidates(input) ==
  {c \in LexemeIds \X (1..Len(input)) :
     c[2] \in MatchEnds(symbols[c[1] + 1].expression, input, 0, Len(symbols))}

(* The longest candidate, of those the one declared first *)
BestMatch(input) ==
  CHOOSE c \in Candidates(input) :
    \A d \in Candidates(input) : d[2] < c[2] \/ (d[2] = c[2] /\ c[1] <= d[1])

(* C16: match_regex reports the lexeme symbol and the length of the        *)
(* longest match of a prefix of the input among all lexeme symbols, the    *)
(* symbol declared first among those of that length.                       *)
C16_LongestMatchWins ==
  (matcher.matched /\ OnlyRanges /\ Candidates(matcher.input) # {}) =>
    /\ matcher.ret = 0
    /\ matcher.len = BestMatch(matcher.input)[2]
    /\ matcher.symbol = BestMatch(matcher.input)[1]

(* C17: with the grammar @num [0-9]*"0"; @ws " "*; a match of the input    *)
(* 1230 followed by a space reports num with length 4, and a match of the  *)
(* rest of that input, the space, reports ws with length 1.                *)
C17_ExampleMatches ==
  (buf = ExampleGrammar /\ matcher.matched) =>
    /\ matcher.input = <<Ch["1"], Ch["2"], Ch["3"], Ch["0"], Ch[" "]>> =>
          matcher.ret = 0 /\ matcher.symbol = 0 /\ matcher.len = 4
    /\ matcher.input = <<Ch[" "]>> =>
          matcher.ret = 0 /\ matcher.symbol = 1 /\ matcher.len = 1

(* No lexeme symbol matches a prefix of the input, nor of the input with   *)
(* one of the input strings after it                                       *)
Rejected(input) == input # <<>> /\ \A t \in MatchInputs : Candidates(input \o t) = {}

(* C18: match_regex returns 0 only when some lexeme symbol matches a       *)
(* prefix of the input; when none does it returns -1 and the length on the *)
(* matcher is 0.                                                           *)
C18_NoMatchIsReported ==
  (matcher.matched /\ OnlyRanges) =>
    /\ matcher.ret = 0 => Candidates(matcher.input) # {}
    /\ Rejected(matcher.input) => matcher.ret = -1 /\ matcher.len = 0

(* The number of bytes consumed when the input ends at a state that tests  *)
(* a byte, -1 when the walk from state at ends otherwise: predicate 0 is   *)
(* an epsilon transition, next 0 an end state, otherwise 0 failure         *)
(* (regex_nfa.h)                                                           *)
RECURSIVE ExhaustedAt(_, _, _, _, _)
ExhaustedAt(n, str, at, consumed, fuel) ==
  LET state == n.states[at + 1]
  IN IF fuel = 0 \/ at >= Len(n.states) THEN -1
     ELSE IF state.predicate = 0
     THEN IF state.next = 0 THEN -1
          ELSE ExhaustedAt(n, str, state.next, consumed, fuel - 1)
     ELSE IF consumed = Len(str) THEN consumed
     ELSE IF str[consumed + 1] = state.predicate
     THEN IF state.next = 0 THEN -1
          ELSE ExhaustedAt(n, str, state.next, consumed + 1, fuel - 1)
     ELSE IF state.otherwise = 0 THEN -1
     ELSE ExhaustedAt(n, str, state.otherwise, consumed, fuel - 1)

(* init_regex_nfa_matcher stored the fields of the matcher *)
MatcherReady == nm.called /\ nm.allocated /\ nm.max_len # 0

(* C19: when the input ends while the matcher is at a state that tests a   *)
(* byte, match_regex_nfa returns, reporting an incomplete match and the    *)
(* number of bytes consumed.                                               *)
C19_ExhaustedInputIsIncomplete ==
  (nm.matched /\ MatcherReady
      /\ ExhaustedAt(nm.n, nm.str, 0, 0, Len(nm.n.states) + Len(nm.str) + 1) # -1) =>
    /\ nm.halt = "run"
    /\ nm.exit = "incomplete"
    /\ nm.ret = 0
    /\ nm.result = 0
    /\ nm.len = ExhaustedAt(nm.n, nm.str, 0, 0, Len(nm.n.states) + Len(nm.str) + 1)

(* What the caller of match_regex_nfa has of a match *)
Outcome(m) == [ret |-> m.ret, result |-> m.result, len |-> m.len]

(* C20: the stack of the matcher never holds more entries than its size,   *)
(* and the return of match_regex_nfa at a full stack differs, for the      *)
(* caller, from the return at the end of the input.                        *)
C20_OverflowIsDistinct ==
  /\ MatcherReady => nm.stack_len <= nm.stack_size
  /\ (nm.matched /\ nm.exit = "overflow") =>
        Outcome(nm) # Outcome(match_regex_nfa_exhausted(nm, nm.len))

-----------------------------------------------------------------------------
(* Properties of the expression trees and of the positions *)

(* The children of a node along its ownership edges *)
Children(h, n) ==
  IF h[n].type \in {"sequence", "branch"} THEN <<h[n].left, h[n].right>>
  ELSE IF h[n].type = "loop" THEN <<h[n].body>>
  ELSE <<>>

(* The nodes of the tree under a node, the node included *)
RECURSIVE TreeNodes(_, _)
TreeNodes(h, n) ==
  IF n = NULL THEN {}
  ELSE {n} \cup UNION {TreeNodes(h, Children(h, n)[i]) : i \in DOMAIN Children(h, n)}

(* The nodes of the expressions attached to symbols *)
Attached == UNION {TreeNodes(heap, symbols[i].expression) : i \in DOMAIN symbols}

C24_FailureReleasesEverything ==
  (pc = "done" /\ result = "NULL") => \A n \in DOMAIN heap : heap[n].freed >= 1

(* C27: a symbol that has its expression keeps its name, its lexeme flag   *)
(* and its expression in every step of the parse, of parse_regex_nfa and   *)
(* of the matcher.                                                         *)
C27_DefinedSymbolIsFrozen ==
  [][\A i \in DOMAIN symbols :
       symbols[i].expression # NULL => (i \in DOMAIN symbols' /\ symbols'[i] = symbols[i])]_vars

(* C27 witness: parse_regex_nfa was called after a definition met a symbol *)
(* that had its expression, declared with the other lexeme flag            *)
C27_Witness ==
  /\ nfa.called
  /\ \E k \in DOMAIN hist.defs :
        /\ hist.defs[k].defined
        /\ hist.defs[k].lexeme # symbols[hist.defs[k].symbol].lexeme

(* The nodes that have not been released *)
Live == {n \in DOMAIN heap : heap[n].freed = 0}

(* The ownership edges that lead to node c *)
ParentEdges(c) ==
  {e \in Live \X (1..2) : e[2] \in DOMAIN Children(heap, e[1]) /\ Children(heap, e[1])[e[2]] = c}

(* C28: in every state of the parse the nodes form trees along the edges   *)
(* to the children of Sequence and Branch nodes and to the body of Loop    *)
(* nodes: none of these edges is null, no node has two of them leading to  *)
(* it, and the expression of a symbol has none leading to it and belongs   *)
(* to that symbol only.                                                    *)
C28_ExpressionsAreTrees ==
  /\ \A n \in Live : \A i \in DOMAIN Children(heap, n) : Children(heap, n)[i] # NULL
  /\ \A c \in Live : Cardinality(ParentEdges(c)) <= 1
  /\ \A i \in DOMAIN symbols :
        symbols[i].expression # NULL =>
          /\ ParentEdges(symbols[i].expression) = {}
          /\ \A j \in DOMAIN symbols : symbols[j].expression = symbols[i].expression => i = j

(* C28 witness: a table was returned with an expression of three elements, *)
(* the second node of its chain hanging under the first                    *)
C28_Witness ==
  /\ pc = "done"
  /\ result = "symbols"
  /\ \E n \in Live :
        /\ heap[n].type \in {"sequence", "branch"}
        /\ heap[heap[n].right].type = heap[n].type

(* C30: in every state of the parser line is 1 plus the number of newlines *)
(* before pos and col is 1 plus the number of bytes between the last of    *)
(* them, or the start of the buffer, and pos; a recorded error was met at  *)
(* that position.                                                          *)
C30_LineAndColumn ==
  /\ line = LineAt(buf, pos)
  /\ col = ColAt(buf, pos)
  /\ error # NoError => pos = hist.err[1].pos

(* C30 witness: an error was logged for a position after the first line    *)
(* and after the first column                                              *)
C30_Witness ==
  /\ pc = "done"
  /\ error # NoError
  /\ line >= 2
  /\ col >= 2
  /\ logged = <<[msg |-> error, line |-> line, col |-> col]>>

-----------------------------------------------------------------------------
(* The tree a statement stands for, read from its text *)

Bad == [t |-> "bad"]

(* The tokens of the text from position i on: atoms and operators, white   *)
(* space left out, up to the end of the statement                          *)
RECURSIVE Tokens(_, _)
Tokens(b, i) ==
  IF i > Len(b) THEN <<[k |-> "end"]>>
  ELSE IF b[i] \in is_whitespace THEN Tokens(b, i + 1)
  ELSE IF b[i] = REGEX_PARSER_STATEMENT_END THEN <<>>
  ELSE IF b[i] = REGEX_PARSER_LITERAL
  THEN LET closing == {j \in (i + 1)..Len(b) : b[j] = REGEX_PARSER_LITERAL}
           j == CHOOSE c \in closing : \A d \in closing : c <= d
       IN IF closing = {} THEN <<[k |-> "end"]>>
          ELSE <<[k |-> "literal", text |-> SubSeq(b, i + 1, j - 1)]>> \o Tokens(b, j + 1)
  ELSE IF b[i] = REGEX_PARSER_RANGE_START
  THEN IF i + 4 > Len(b) THEN <<[k |-> "end"]>>
       ELSE <<[k |-> "range", start |-> b[i + 1], end |-> b[i + 3]]>> \o Tokens(b, i + 5)
  ELSE IF b[i] = REGEX_PARSER_REFERENCE_PREFIX
  THEN LET stops == {j \in (i + 1)..(Len(b) + 1) : j = Len(b) + 1 \/ b[j] \notin is_identifier}
           j == CHOOSE c \in stops : \A d \in stops : c <= d
       IN <<[k |-> "reference", name |-> SubSeq(b, i + 1, j - 1)]>> \o Tokens(b, j)
  ELSE <<[k |-> "op", c |-> b[i]]>> \o Tokens(b, i + 1)

IsOp(tok, c) == tok.k = "op" /\ tok.c = c

(* The nesting depth of groups before token i *)
Depth(ts, i) ==
  Cardinality({j \in 1..(i - 1) : IsOp(ts[j], REGEX_PARSER_GROUP_START)})
    - Cardinality({j \in 1..(i - 1) : IsOp(ts[j], REGEX_PARSER_GROUP_END)})

(* The tree of a literal: its characters in a chain of Sequence nodes *)
RECURSIVE LiteralValue(_)
LiteralValue(text) ==
  LET first == [t |-> "range", start |-> text[1], end |-> text[1] + 1]
  IN IF Len(text) = 1 THEN first
     ELSE [t |-> "sequence", left |-> first, right |-> LiteralValue(Tail(text))]

Join(type, left, right) ==
  IF left = Bad \/ right = Bad THEN Bad
  ELSE [t |-> type, left |-> left, right |-> right]

(* alternatives separated by '|', each a sequence of atoms; an atom is a   *)
(* literal, a range, a reference or a group, with or without a '*'         *)
RECURSIVE BranchValue(_), SequenceValue(_)
BranchValue(ts) ==
  LET bars == {i \in DOMAIN ts : IsOp(ts[i], REGEX_PARSER_BRANCH_SEPARATOR) /\ Depth(ts, i) = 0}
      bar == CHOOSE i \in bars : \A j \in bars : i <= j
  IN IF bars = {} THEN SequenceValue(ts)
     ELSE Join("branch", SequenceValue(SubSeq(ts, 1, bar - 1)),
               BranchValue(SubSeq(ts, bar + 1, Len(ts))))

SequenceValue(ts) ==
  LET closes == {i \in DOMAIN ts : IsOp(ts[i], REGEX_PARSER_GROUP_END) /\ Depth(ts, i + 1) = 0}
      close == CHOOSE i \in closes : \A j \in closes : i <= j
      last == IF ts # <<>> /\ IsOp(ts[1], REGEX_PARSER_GROUP_START) /\ closes # {} THEN close ELSE 1
      atom == IF ts = <<>> THEN Bad
              ELSE IF ts[1].k = "literal"
              THEN IF ts[1].text = <<>> THEN Bad ELSE LiteralValue(ts[1].text)
              ELSE IF ts[1].k = "range"
              THEN [t |-> "range", start |-> ts[1].start, end |-> ts[1].end]
              ELSE IF ts[1].k = "reference"
              THEN IF ts[1].name = <<>> THEN Bad ELSE [t |-> "reference", name |-> ts[1].name]
              ELSE IF IsOp(ts[1], REGEX_PARSER_GROUP_START) /\ closes # {}
              THEN BranchValue(SubSeq(ts, 2, close - 1))
              ELSE Bad
      looped == last < Len(ts) /\ IsOp(ts[last + 1], REGEX_PARSER_LOOP)
      item == IF looped /\ atom # Bad THEN [t |-> "loop", body |-> atom] ELSE atom
      rest == SubSeq(ts, (IF looped THEN last + 2 ELSE last + 1), Len(ts))
  IN IF rest = <<>> THEN item ELSE Join("sequence", item, SequenceValue(rest))

(* The tree of the statement that defines the first symbol of the text *)
Expected ==
  LET stops == {j \in 1..(Len(buf) + 1) : j = Len(buf) + 1 \/ buf[j] \notin is_identifier}
  IN BranchValue(Tokens(buf, CHOOSE c \in stops : \A d \in stops : c <= d))

(* The tree under a node of the heap *)
RECURSIVE TreeValue(_, _)
TreeValue(h, n) ==
  IF n = NULL THEN Bad
  ELSE IF h[n].type = "range" THEN [t |-> "range", start |-> h[n].start, end |-> h[n].end]
  ELSE IF h[n].type = "reference"
  THEN [t |-> "reference", name |-> CString(symbols[h[n].symbol].name)]
  ELSE IF h[n].type = "loop" THEN [t |-> "loop", body |-> TreeValue(h, h[n].body)]
  ELSE [t |-> h[n].type, left |-> TreeValue(h, h[n].left), right |-> TreeValue(h, h[n].right)]

(* C29: the tree of a statement is the chain of Branch nodes over the      *)
(* trees of its alternatives, left to right, each alternative the chain of *)
(* Sequence nodes over its atoms in the order of the source, a '*' making  *)
(* a Loop of the one atom before it, for every statement read without an   *)
(* error.                                                                  *)
C29_Precedence ==
  (pc = "done" /\ error = NoError /\ Expected # Bad) =>
    /\ symbols # <<>>
    /\ symbols[1].expression # NULL
    /\ TreeValue(heap, symbols[1].expression) = Expected

(* a statement of two alternatives, the first a sequence that ends in a loop *)
C29_Witness ==
  /\ pc = "done"
  /\ error = NoError
  /\ Expected # Bad
  /\ Expected.t = "branch"
  /\ Expected.left.t = "sequence"
  /\ Expected.left.right.t = "loop"
  /\ symbols # <<>>
  /\ TreeValue(heap, symbols[1].expression) = Expected

-----------------------------------------------------------------------------
(* Properties of the reset of a matcher *)

(* The fields of struct regex_nfa_matcher and how the last match ended *)
Fields(m) ==
  [stack_len |-> m.stack_len, stack_size |-> m.stack_size, result |-> m.result, len |-> m.len,
   halt |-> m.halt, exit |-> m.exit, ret |-> m.ret]

(* The matcher just after init_regex_nfa_matcher with the same capacity *)
Fresh ==
  init_regex_nfa_matcher([nm EXCEPT !.stack_len = 1, !.stack_size = 1, !.result = 1,
                                    !.len = 1, !.exit = "none"], nm.max_len, TRUE)

(* C21: after reset_regex_nfa_matcher the stack is empty, result and len   *)
(* are 0 and the capacity is what it was; a matcher that was initialised   *)
(* is as it was just after init_regex_nfa_matcher, every match on it ends  *)
(* as it ends on a fresh matcher, and a second reset changes nothing.      *)
C21_ResetRestoresInit ==
  /\ nm.last = "reset" =>
        /\ nm.stack_len = 0 /\ nm.result = 0 /\ nm.len = 0
        /\ nm.stack_size = nm.before.stack_size
        /\ Fields(reset_regex_nfa_matcher(nm)) = Fields(nm)
        /\ MatcherReady =>
              /\ Outcome(nm) = Outcome(Fresh)
              /\ nm.stack_size = Fresh.stack_size
              /\ \A n \in Automata, str \in MatchInputs :
                    { Fields(o) : o \in match_regex_nfa(n, [nm EXCEPT !.exit = "none"], str) }
                      = { Fields(o) : o \in match_regex_nfa(n, Fresh, str) }
  /\ (nm.last = "match" /\ nm.prev = "reset" /\ MatcherReady) =>
        Fields(nm) \in { Fields(o) : o \in match_regex_nfa(nm.n, Fresh, nm.str) }

(* a match on a matcher that was reset after an earlier match *)
C21_Witness ==
  /\ nm.last = "match"
  /\ nm.prev = "reset"
  /\ nm.resets = 1
  /\ MatcherReady
  /\ nm.str # <<>>
  /\ nm.halt = "hang"

-----------------------------------------------------------------------------
(* Properties of matches that run at the same time *)

(* C22: the automaton is what it was before the matches, and a thread that *)
(* has left match_regex_nfa, or stopped inside it, has in its matcher one  *)
(* of the outcomes of the same call made alone.                            *)
C22_MatchesDoNotInterfere ==
  conc.started =>
    /\ conc.n = conc.n0
    /\ \A i \in Threads :
          conc.th[i].pc \in {"done", "crash", "hang"} =>
            Fields(conc.th[i].m)
              \in { Fields(o) : o \in match_regex_nfa(conc.n0, conc.th[i].m0, conc.th[i].str) }
    /\ \A i \in Threads :
          conc.th[i].pc \in {"enter", "loop"} => conc.th[i].m = conc.th[i].m0

(* both threads have returned from overlapping matches of different        *)
(* strings, by different returns, one on a matcher whose fields the match  *)
(* has changed                                                             *)
C22_Witness ==
  /\ conc.started
  /\ conc.overlapped
  /\ \A i \in Threads : conc.th[i].pc = "done"
  /\ conc.th[1].str # conc.th[2].str
  /\ conc.th[1].m.exit # conc.th[2].m.exit
  /\ \E i \in Threads : Outcome(conc.th[i].m) # Outcome(conc.th[i].m0)

-----------------------------------------------------------------------------
(* Properties of the logger *)

(* C25: once stop_logger is called the worker leaves and stop_logger       *)
(* returns 0.                                                              *)
C25_StopLoggerReturns ==
  (lg.spc # "idle") ~> (lg.spc = "returned" /\ lg.sret = 0 /\ lg.wpc = "exit")

(* The messages log_message has returned 0 for that are to be printed *)
Due ==
  { m \in {lg.pushed[k] : k \in DOMAIN lg.pushed} :
      m.id \in lg.returned /\ lg.min_log_level <= m.level }

Times(m) == Cardinality({k \in DOMAIN lg.printed : lg.printed[k] = m})

(* C26: when stop_logger has returned, every message log_message returned  *)
(* 0 for at or above the minimum level has been printed; no message is     *)
(* printed twice or out of the order of the queue, none below the minimum  *)
(* level is printed at all.                                                *)
C26_EveryMessagePrintedOnce ==
  /\ lg.spc = "returned" => \A m \in Due : Times(m) = 1
  /\ \A k \in DOMAIN lg.printed :
        /\ lg.min_log_level <= lg.printed[k].level
        /\ \A j \in 1..(k - 1) : lg.printed[j].id < lg.printed[k].id

(* C35: after move_log_msgs the destination holds the messages it held     *)
(* followed by those of the source, all reached from its head and the last *)
(* of them its tail, and the source is empty.                              *)
C35_MoveAppends ==
  lg.moved.done =>
    /\ lg.moved.dest = lg.moved.dest0 \o lg.moved.src0
    /\ lg.moved.src = <<>>
    /\ lg.moved.tail = log_queue(lg.moved.dest).tail

(* C36: a thread that is about to read or write running, to use the        *)
(* waiting queue or to unlock waiting_mutex holds waiting_mutex.           *)
C36_AccessesHoldMutex ==
  /\ lg.wpc \in {"check", "move"} => lg.waiting_mutex = "worker"
  /\ \A c \in Callers : lg.cpc[c] = "push" => lg.waiting_mutex = c
  /\ lg.spc \in {"unlock", "flag", "release", "flush"} => lg.waiting_mutex = "stop"

(* C33: a call of match_regex_nfa on an initialised matcher returns: it    *)
(* neither stays in its loop for ever nor reads outside the automaton.     *)
C33_MatchTerminates ==
  (nm.matched /\ MatcherReady) => nm.halt = "run"

-----------------------------------------------------------------------------
(* Properties of the states compiled from literals *)

(* The source has no range: every Range node is a character of a literal *)
OnlyLiterals == \A i \in DOMAIN buf : buf[i] # REGEX_PARSER_RANGE_START

(* C31: the state compiled for a literal character c lets the byte c pass  *)
(* and no other, as the state compiled for [c-c] does: the end of the      *)
(* Range node of a literal and that of a range are read alike.             *)
C31_LiteralStateAcceptsOneByte ==
  \A i \in DOMAIN nfa.ranges :
     LET node == heap[nfa.ranges[i].node]
         state == nfa.states[nfa.ranges[i].state + 1]
     IN /\ OnlyLiterals => StateAccepts(state) = {node.start}
        /\ (OnlyRanges /\ node.start = node.end) => StateAccepts(state) = {node.start}

-----------------------------------------------------------------------------
(* Properties of the state collections *)

CollStates(c) == IF c.kind = "nfa" THEN c.a.states ELSE c.n.states

CollSize(c) == IF c.kind = "nfa" THEN c.a.size ELSE c.n.size

(* C32: a call of add_regex_state or add_regex_nfa_state that returns 0    *)
(* stores the former len as the id, adds one state, keeps len <= size and  *)
(* leaves the states there were as they were; a call that returns -1       *)
(* leaves len, size and every state as they were.                          *)
C32_StatesAreAppendOnly ==
  [][(coll.kind # "none" /\ coll'.last = "add") =>
       IF coll'.rc = 0
       THEN /\ coll'.id = Len(CollStates(coll))
            /\ Len(CollStates(coll')) = Len(CollStates(coll)) + 1
            /\ Len(CollStates(coll')) <= CollSize(coll')
            /\ SubSeq(CollStates(coll'), 1, Len(CollStates(coll))) = CollStates(coll)
       ELSE /\ coll'.rc = -1
            /\ CollStates(coll') = CollStates(coll)
            /\ CollSize(coll') = CollSize(coll)]_vars

(* the buffer has grown past its first size with stored states in it *)
C32_Witness ==
  /\ coll.kind = "regex"
  /\ coll.last = "add"
  /\ coll.rc = 0
  /\ coll.id = INITIAL_REGEX_NFA_BUFFER_SIZE
  /\ coll.n.size = 2 * INITIAL_REGEX_NFA_BUFFER_SIZE
  /\ coll.n.states[1] # coll.n.junk.state
  /\ coll.n.states[2] # coll.n.junk.state

-----------------------------------------------------------------------------
(* Properties of the compiled automaton *)

(* C34: after a successful parse_regex_nfa the names of the automaton are  *)
(* the names of the symbols of the table, one each and in its order, and   *)
(* the end of every state is -1 or the index of one of these symbols.      *)
C34_NamesAndEnds ==
  CompiledOk =>
    /\ nfa.symbols_len = Len(symbols)
    /\ nfa.symbols = SymbolNames(symbols)
    /\ \A i \in DOMAIN nfa.states :
          nfa.states[i].end = -1 \/ nfa.states[i].end \in 0..(nfa.symbols_len - 1)

-----------------------------------------------------------------------------
(* Properties of the scan *)

(* C37: no assertion of parser_peek or parser_skip fails, and the position *)
(* stays within the buffer.                                                *)
C37_PeekAndSkipWithinBuffer ==
  /\ pc # "abort"
  /\ 0 <= pos /\ pos <= Len(buf)

(* C38: no parser loop reaches an iteration that neither advances pos nor  *)
(* leaves the loop, so parse_regex_symbols never runs forever.             *)
C38_EveryIterationAdvances == pc # "hang"

(* C39: no symbol of a successfully parsed table has the empty name.       *)
C39_NamesAreNotEmpty ==
  (pc = "done" /\ result = "symbols") =>
     \A i \in DOMAIN symbols : CString(symbols[i].name) # <<>>

(* C40: every Range node of a successfully parsed table has its lower      *)
(* bound not above its upper bound, and every state compiled from a Range  *)
(* node has lower < upper.                                                 *)
C40_RangesAreNotEmpty ==
  /\ (pc = "done" /\ result = "symbols") =>
        \A n \in DOMAIN heap :
           heap[n].type = "range" => heap[n].start <= heap[n].end
  /\ CompiledOk =>
        \A i \in DOMAIN nfa.ranges :
           nfa.states[nfa.ranges[i].state + 1].lower < nfa.states[nfa.ranges[i].state + 1].upper

====
